---------------------------- MODULE Spec2Model ----------------------------
(***************************************************************************)
(* Model of pyflyby/_parse.py: the statement/comment splitter, the ordered *)
(* child enumerator, the position annotator and the PythonBlock /          *)
(* PythonStatement facade with its lazily computed, memoized attributes.   *)
(*                                                                         *)
(* Source text is modelled concretely: a FileText is a tuple of lines      *)
(* (the text split at line breaks, so a text that ends in a line break has *)
(* an empty last line) anchored at a start position.  A line is a sequence *)
(* of characters over a small alphabet:                                    *)
(*    "x"   a code token (the first character of a node, or any other      *)
(*          character of code or of a string body),                        *)
(*    "#"   the comment character,                                         *)
(*    " "   white space,                                                   *)
(*    "\\"  the backslash (line-continuation marker when last on a line).  *)
(***************************************************************************)
EXTENDS Integers, Sequences, FiniteSets, TLC

VARIABLES text, tree, heap, ret, call

vars == <<text, tree, heap, ret, call>>

-----------------------------------------------------------------------------
(* Bounds of the model. *)

\* Largest number of non-final lines of a generated source text.
MaxLines == 3

\* Largest number of top-level nodes of a generated source text.
MaxNodes == 3

\* Largest number of non-final lines of the source file of the facade.
MaxFileLines == 2

\* Largest number of PythonBlock objects alive.
MaxBlocks == 5

\* Largest number of blocks made from slices of the file by the caller.
MaxRoots == 2

\* Largest number of blocks passed to one call of concatenate.
MaxConcat == 2

\* The most lines of a text whose statements are grouped.
MaxGroupLines == 3

\* The most targets of an assignment.
MaxTargets == 2

\* The most key/value pairs of a mapping literal.
MaxPairs == 2

\* The most statements of a text that is parsed and annotated.
MaxStatements == 2

-----------------------------------------------------------------------------
(* FilePos: 1-based (lineno, colno), ordered lexicographically. *)

NoPos == <<0, 0>>

PosLT(a, b) ==
    a[1] < b[1] \/ (a[1] = b[1] /\ a[2] < b[2])

PosLE(a, b) ==
    a = b \/ PosLT(a, b)

PosMin(a, b) ==
    IF PosLE(a, b) THEN a ELSE b

-----------------------------------------------------------------------------
(* FileText: [lines, startpos]. *)

FileText(lines, startpos) ==
    [lines |-> lines, startpos |-> startpos]

\* FileText.endpos
EndPos(ft) ==
    LET n == Len(ft.lines)
    IN  <<ft.startpos[1] + n - 1,
          IF n = 1 THEN ft.startpos[2] + Len(ft.lines[1])
                   ELSE 1 + Len(ft.lines[n])>>

\* FileText.__getitem__(int): one line, without its line break.
LineAt(ft, lineno) ==
    ft.lines[lineno - ft.startpos[1] + 1]

\* 0-based index of column colno within the stored line lineno.
ColIndex(ft, lineno, colno) ==
    IF lineno = ft.startpos[1] THEN colno - ft.startpos[2] ELSE colno - 1

\* FileText.__getitem__(slice): the text from position a up to position b.
Slice(ft, a, b) ==
    LET la == a[1] - ft.startpos[1] + 1
        lb == b[1] - ft.startpos[1] + 1
        ca == ColIndex(ft, a[1], a[2])
        cb == ColIndex(ft, b[1], b[2])
    IN  IF la = lb
        THEN FileText(<<SubSeq(ft.lines[la], ca + 1, cb)>>, a)
        ELSE FileText(<<SubSeq(ft.lines[la], ca + 1, Len(ft.lines[la]))>>
                        \o SubSeq(ft.lines, la + 1, lb - 1)
                        \o <<SubSeq(ft.lines[lb], 1, cb)>>, a)

RECURSIVE JoinLines(_)
\* FileText.joined: the lines joined by line breaks.
JoinLines(lines) ==
    IF Len(lines) = 1 THEN lines[1]
    ELSE lines[1] \o <<"\n">> \o JoinLines(Tail(lines))

Joined(ft) ==
    JoinLines(ft.lines)

\* Joining two texts character-wise and splitting again at the line breaks:
\* the last line of the first text and the first line of the second merge.
ConcatLines(l1, l2) ==
    SubSeq(l1, 1, Len(l1) - 1)
        \o <<l1[Len(l1)] \o l2[1]>>
        \o Tail(l2)

RECURSIVE ConcatAllLines(_)
ConcatAllLines(fts) ==
    IF Len(fts) = 1 THEN fts[1].lines
    ELSE ConcatLines(fts[1].lines, ConcatAllLines(Tail(fts)))

\* FileText.concatenate: the joined texts, anchored at the first one's start.
FileTextConcatenate(fts) ==
    FileText(ConcatAllLines(fts), fts[1].startpos)

-----------------------------------------------------------------------------
(* _is_comment_or_blank: re.sub("#.*", "", line).rstrip() == "" *)

IsSpace(c) ==
    c = " " \/ c = "\n"

\* re.sub("#.*", "", line): "." does not match a line break, so each comment
\* is removed up to the end of its line and the line break is kept.
RECURSIVE SubComment(_, _)
SubComment(s, inComment) ==
    IF s = <<>> THEN <<>>
    ELSE IF Head(s) = "\n" THEN <<"\n">> \o SubComment(Tail(s), FALSE)
    ELSE IF inComment \/ Head(s) = "#" THEN SubComment(Tail(s), TRUE)
    ELSE <<Head(s)>> \o SubComment(Tail(s), FALSE)

RECURSIVE RStrip(_)
RStrip(s) ==
    IF s # <<>> /\ IsSpace(s[Len(s)]) THEN RStrip(SubSeq(s, 1, Len(s) - 1))
    ELSE s

IsCommentOrBlank(line) ==
    RStrip(SubComment(line, FALSE)) = <<>>

\* str.endswith("\\")
EndsWithBackslash(line) ==
    line # <<>> /\ line[Len(line)] = "\\"

-----------------------------------------------------------------------------
(* Top-level nodes as the splitter sees them.  A node is a record           *)
(*   [id, startpos, endpos, ext, kind]                                      *)
(* where endpos = NoPos stands for "the node has no endpos attribute", ext  *)
(* is the position just after the node's last character (what the parser    *)
(* consumed; no code reads it) and kind is the statement kind.              *)

Node(id, startpos, endpos, ext, kind) ==
    [id |-> id, startpos |-> startpos, endpos |-> endpos, ext |-> ext,
     kind |-> kind]

Chunk(nodes, subtext) ==
    [nodes |-> nodes, text |-> subtext]

\* Lines 438-451: the node carries an endpos.  Look at the remainder of the
\* line only; absorb it when it is blank or a comment.
ExplicitEnd(node, next_startpos, t) ==
    LET endpos == node.endpos
    IN  IF ~(PosLT(node.startpos, endpos) /\ PosLE(endpos, next_startpos))
        THEN [err |-> "assert:442", endpos |-> endpos]
        ELSE IF endpos[2] = 1
        THEN [err |-> "assert:445", endpos |-> endpos]
        ELSE LET line == Slice(t, endpos,
                               PosMin(EndPos(t), <<endpos[1] + 1, 1>>))
             IN  [err |-> "none",
                  endpos |-> IF IsCommentOrBlank(Joined(line))
                             THEN <<endpos[1] + 1, 1>> ELSE endpos]

RECURSIVE WalkBack(_, _, _)
\* Lines 476-480: walk the boundary back over comment/blank lines.
WalkBack(t, startpos, endpos) ==
    IF /\ endpos[1] - 1 > startpos[1]
       /\ IsCommentOrBlank(LineAt(t, endpos[1] - 1))
       /\ ~EndsWithBackslash(LineAt(t, endpos[1] - 2))
    THEN WalkBack(t, startpos, <<endpos[1] - 1, 1>>)
    ELSE endpos

\* Lines 458-466: the boundary is the end of a text with no final line break.
LastLineEnd(node, t, endpos) ==
    IF endpos[2] # 1 /\ endpos = EndPos(t) /\ IsCommentOrBlank(LineAt(t, endpos[1]))
    THEN IF ~(node.startpos[1] < endpos[1])
         THEN [err |-> "assert:464", endpos |-> endpos]
         ELSE IF ~EndsWithBackslash(LineAt(t, endpos[1] - 1))
         THEN [err |-> "none", endpos |-> <<endpos[1], 1>>]
         ELSE [err |-> "none", endpos |-> endpos]
    ELSE [err |-> "none", endpos |-> endpos]

\* Lines 452-480: the node carries no endpos.  Start at the next node's start
\* (or the end of the text) and work backward.
BackwardEnd(node, next_startpos, t) ==
    IF ~PosLE(next_startpos, EndPos(t))
    THEN [err |-> "assert:454", endpos |-> next_startpos]
    ELSE LET r == LastLineEnd(node, t, next_startpos)
         IN  IF r.err # "none" THEN r
             ELSE IF r.endpos[2] = 1
             THEN [err |-> "none", endpos |-> WalkBack(t, node.startpos, r.endpos)]
             ELSE r

\* Lines 432-481: the resolved end of one node's chunk.
ResolveEnd(node, next_startpos, t) ==
    IF ~PosLT(node.startpos, next_startpos)
    THEN [err |-> "assert:434", endpos |-> NoPos]
    ELSE LET r == IF node.endpos # NoPos
                  THEN ExplicitEnd(node, next_startpos, t)
                  ELSE BackwardEnd(node, next_startpos, t)
         IN  IF r.err # "none" THEN r
             ELSE IF ~(PosLT(node.startpos, r.endpos) /\ PosLE(r.endpos, next_startpos))
             THEN [err |-> "assert:481", endpos |-> r.endpos]
             ELSE r

\* The start of the node after the i-th one; the end sentinel for the last.
NextStart(ast_nodes, t, i) ==
    IF i < Len(ast_nodes) THEN ast_nodes[i + 1].startpos ELSE EndPos(t)

RECURSIVE SplitLoop(_, _, _, _)
\* Lines 431-484: the loop over the nodes.  The function is a generator: the
\* chunks yielded before a failed assertion have been emitted.
SplitLoop(ast_nodes, t, i, acc) ==
    IF i > Len(ast_nodes) THEN [chunks |-> acc, err |-> "none"]
    ELSE LET node == ast_nodes[i]
             next_startpos == NextStart(ast_nodes, t, i)
             r == ResolveEnd(node, next_startpos, t)
         IN  IF r.err # "none" THEN [chunks |-> acc, err |-> r.err]
             ELSE SplitLoop(ast_nodes, t, i + 1,
                    acc \o <<Chunk(<<node>>, Slice(t, node.startpos, r.endpos))>>
                        \o (IF r.endpos # next_startpos
                            THEN <<Chunk(<<>>, Slice(t, r.endpos, next_startpos))>>
                            ELSE <<>>))

\* A faulty variant of _split_code_lines: the whole text with all its nodes
\* as one chunk.
SplitCodeLinesUnsplit(ast_nodes, t) ==
    [chunks |-> <<Chunk(ast_nodes, t)>>, err |-> "none"]

\* _split_code_lines
SplitCodeLines(ast_nodes, t) ==
    IF ast_nodes = <<>> THEN [chunks |-> <<Chunk(<<>>, t)>>, err |-> "none"]
    ELSE IF ~PosLE(t.startpos, ast_nodes[1].startpos)
    THEN [chunks |-> <<>>, err |-> "assert:424"]
    ELSE IF ~PosLT(ast_nodes[Len(ast_nodes)].startpos, EndPos(t))
    THEN [chunks |-> <<>>, err |-> "assert:425"]
    ELSE SplitLoop(ast_nodes, t, 1,
            IF t.startpos # ast_nodes[1].startpos
            THEN <<Chunk(<<>>, Slice(t, t.startpos, ast_nodes[1].startpos))>>
            ELSE <<>>)

-----------------------------------------------------------------------------
(* What the parser is given and what it reports: source texts and, for     *)
(* each, the layouts of top-level nodes a parse can produce.               *)

\* The lines a generated text is made of.
FileLineSet ==
    { <<"x">>, <<"#">>, <<"#", "x", "x">> }

LineSet ==
    { <<"x">>,                 \* code
      <<"#">>,                 \* a comment
      <<>>,                    \* a blank line
      <<" ", "#">>,            \* an indented comment
      <<"x", "\\">>,           \* code continued on the next line
      <<"x", "x">>,            \* two tokens, eg two statements on a line
      <<"x", " ", "#">>,       \* code followed by an inline comment
      <<"#", "\\">>,           \* a comment that ends in a backslash
      <<"#", "x", "x">> }      \* a line of a multi-line string that starts
                               \* with "#", its close, and more code

Bodies(lineSet, maxLines) ==
    UNION { [1..n -> lineSet] : n \in 1..maxLines }

\* FileText.lines of every generated text, with and without a final line
\* break (with one, the last line is empty).
TextLines(lineSet, maxLines) ==
    Bodies(lineSet, maxLines)
        \cup { b \o << <<>> >> : b \in Bodies(lineSet, maxLines) }
        \cup { << <<>> >> }

\* The positions of the character ch in a text anchored at (1,1).
CharPos(lines, ch) ==
    UNION { { <<l, c>> : c \in { d \in 1..Len(lines[l]) : lines[l][d] = ch } } :
              l \in 1..Len(lines) }

After(p) ==
    <<p[1], p[2] + 1>>

RECURSIVE SortedSeq(_)
\* The positions of a set in increasing order.
SortedSeq(S) ==
    IF S = {} THEN <<>>
    ELSE LET m == CHOOSE a \in S : \A b \in S : PosLE(a, b)
         IN  <<m>> \o SortedSeq(S \ {m})

\* The i-th node of a layout with the given starts: its extent ends after a
\* code token before the next start, and an endpos, when it has one, lies
\* after a code token of the node.
NodeChoices(lines, starts, i, withEndpos) ==
    LET X == CharPos(lines, "x")
        inNode == { q \in X : PosLE(starts[i], q) /\
                       (i < Len(starts) => PosLT(q, starts[i + 1])) }
    IN  UNION { { Node(i, starts[i], ep, After(p), "Expr") :
                    ep \in {NoPos} \cup
                          (IF withEndpos
                           THEN { After(q) : q \in { r \in inNode : PosLE(r, p) } }
                           ELSE {}) } :
                  p \in inNode }

RECURSIVE NodeSeqsFrom(_, _, _, _)
NodeSeqsFrom(lines, starts, i, withEndpos) ==
    IF i > Len(starts) THEN { <<>> }
    ELSE { <<n>> \o rest :
             n \in NodeChoices(lines, starts, i, withEndpos),
             rest \in NodeSeqsFrom(lines, starts, i + 1, withEndpos) }

Covered(nodes, p) ==
    \E i \in 1..Len(nodes) : PosLE(nodes[i].startpos, p) /\ PosLT(p, nodes[i].ext)

\* The column where the comment of line l starts (a "#" outside every node),
\* or 0.
CommentCol(lines, nodes, l) ==
    LET H == { c \in 1..Len(lines[l]) :
                 lines[l][c] = "#" /\ ~Covered(nodes, <<l, c>>) }
    IN  IF H = {} THEN 0 ELSE CHOOSE c \in H : \A d \in H : c <= d

\* A layout the parser can report for the text: no node starts inside a
\* comment, and outside the comments every code token and every backslash
\* belongs to a node.
WellFormed(lines, nodes) ==
    \A l \in 1..Len(lines) :
        LET h == CommentCol(lines, nodes, l)
        IN  /\ \A i \in 1..Len(nodes) :
                  nodes[i].startpos[1] = l /\ h # 0 => nodes[i].startpos[2] < h
            /\ \A c \in 1..Len(lines[l]) :
                  (lines[l][c] \in {"x", "\\"} /\ ~Covered(nodes, <<l, c>>))
                      => (h # 0 /\ c > h)

Layouts(lines, withEndpos) ==
    { nodes \in UNION { NodeSeqsFrom(lines, SortedSeq(S), 1, withEndpos) :
                          S \in { T \in SUBSET CharPos(lines, "x") :
                                    Cardinality(T) <= MaxNodes } } :
        WellFormed(lines, nodes) }

-----------------------------------------------------------------------------
(* The splitter as a function of its inputs. *)

NoCall == [op |-> "none"]

SplitInit ==
    /\ \E lines \in TextLines(LineSet, MaxLines) :
          /\ text = FileText(lines, <<1, 1>>)
          /\ tree \in Layouts(lines, TRUE)
    /\ heap = <<>>
    /\ ret = NoCall
    /\ call = NoCall

RunSplit ==
    /\ call = NoCall
    /\ call' = [op |-> "split", out |-> SplitCodeLines(tree, text)]
    /\ UNCHANGED <<text, tree, heap, ret>>

SplitNext ==
    RunSplit

SplitSpec ==
    SplitInit /\ [][SplitNext]_vars

-----------------------------------------------------------------------------
(* CompilerFlags: a bitset held as an integer. *)

\* The flag a "from __future__ import ..." statement of the model declares.
FlagDivision == 1

\* A flag only callers pass.
FlagPrintFunction == 2

RECURSIVE BitOr(_, _)
\* a | b
BitOr(a, b) ==
    IF a = 0 THEN b
    ELSE IF b = 0 THEN a
    ELSE (IF a % 2 = 1 \/ b % 2 = 1 THEN 1 ELSE 0) + 2 * BitOr(a \div 2, b \div 2)

RECURSIVE FlagsFromAst(_)
\* CompilerFlags.from_ast: the flags of the __future__ imports of a tree.
FlagsFromAst(body) ==
    IF body = <<>> THEN 0
    ELSE BitOr(IF Head(body).kind = "Future" THEN FlagDivision ELSE 0,
               FlagsFromAst(Tail(body)))

-----------------------------------------------------------------------------
(* The parser (the compile built-in behind _parse_ast_nodes) and the       *)
(* annotation of its result, as the facade sees them: the top-level nodes  *)
(* that start inside the text, each with its startpos.                     *)

InSpan(ft, p) ==
    PosLE(ft.startpos, p) /\ PosLT(p, EndPos(ft))

\* The text cuts a node in two.
CutsNode(ft, n) ==
    /\ PosLT(n.startpos, EndPos(ft))
    /\ PosLT(ft.startpos, n.ext)
    /\ ~(PosLE(ft.startpos, n.startpos) /\ PosLE(n.ext, EndPos(ft)))

\* _parse_annotate_ast_nodes(text, flags): the parser raises SyntaxError on a
\* text that cuts a statement in two.
ParseAnnotate(ft, flags) ==
    [ok   |-> ~\E i \in 1..Len(tree) : CutsNode(ft, tree[i]),
     body |-> SelectSeq(tree, LAMBDA n : InSpan(ft, n.startpos))]

-----------------------------------------------------------------------------
(* PythonBlock objects live in the heap, a sequence of records; a block is *)
(* named by its index.  A lazily computed attribute is <<>> while it is    *)
(* not in the instance dictionary and <<value>> once it is.  Three fields   *)
(* are bookkeeping no code reads: parses counts the runs of the            *)
(* parse-and-annotate step for the block, emitted holds what the splitter  *)
(* last yielded for it, reraised tells that line 767 has run.              *)

NoExc == <<>>
NoVal == <<>>

\* The element of a one-element set.  The({ e(x) : x \in {v} }) is e(v) with
\* v evaluated once, however often e uses it.
The(S) ==
    CHOOSE x \in S : TRUE

\* The result of evaluating an expression: the heap after it, the exception
\* it raised (or NoExc) and its value.
Result(h, exc, val) ==
    [h |-> h, exc |-> exc, val |-> val]

Module(id, body) ==
    [id |-> id, body |-> body]

\* PythonBlock.from_text
FromText(t, flags) ==
    [text |-> t, input_flags |-> flags, ast_node |-> <<>>, failed |-> <<>>,
     statements |-> <<>>, flags |-> <<>>, source_flags |-> <<>>,
     parses |-> 0, made |-> "text", emitted |-> <<>>, reraised |-> FALSE]

\* A faulty variant of __construct_from_ast: the tree is not stored.
ConstructFromAstUnparsed(id, ast_nodes, t, flags) ==
    [FromText(t, flags) EXCEPT !.made = "ast", !.flags = <<flags>>]

\* PythonBlock.__construct_from_ast
ConstructFromAst(id, ast_nodes, t, flags) ==
    [text |-> t, input_flags |-> flags,
     ast_node |-> <<Module(id, ast_nodes)>>, failed |-> <<>>,
     statements |-> <<>>, flags |-> <<flags>>, source_flags |-> <<>>,
     parses |-> 0, made |-> "ast", emitted |-> <<>>, reraised |-> FALSE]

\* cached_attribute: the attribute of the instance when it is there;
\* otherwise the method's result, stored on the instance unless it raised.
CachedAttribute(h, b, name, computed) ==
    IF h[b][name] # <<>> THEN Result(h, NoExc, h[b][name][1])
    ELSE The({ IF c.exc # NoExc THEN c
               ELSE [c EXCEPT !.h[b][name] = <<c.val>>] : c \in {computed} })

\* A faulty variant of the body of PythonBlock.ast_node: a cached failure is
\* ignored and the text is parsed again.
AstNodeBodyRetry(h, b) ==
    LET n == h[b].parses + 1
    IN  IF ParseAnnotate(h[b].text, h[b].input_flags).ok
        THEN Result([h EXCEPT ![b].parses = n], NoExc,
                    Module(<<b, n>>, ParseAnnotate(h[b].text, h[b].input_flags).body))
        ELSE Result([h EXCEPT ![b].parses = n, ![b].failed = << <<"SyntaxError", b, n>> >>],
                    <<"SyntaxError", b, n>>, NoVal)

\* The body of PythonBlock.ast_node, lines 766-778.
AstNodeBody(h, b) ==
    IF h[b].failed # <<>>
    THEN Result([h EXCEPT ![b].reraised = TRUE], h[b].failed[1], NoVal)
    ELSE LET r == ParseAnnotate(h[b].text, h[b].input_flags)
             n == h[b].parses + 1
         IN  IF r.ok
             THEN Result([h EXCEPT ![b].parses = n], NoExc, Module(<<b, n>>, r.body))
             ELSE Result([h EXCEPT ![b].parses = n, ![b].failed = << <<"SyntaxError", b, n>> >>],
                         <<"SyntaxError", b, n>>, NoVal)

GetAstNode(h, b) ==
    CachedAttribute(h, b, "ast_node", AstNodeBody(h, b))

\* PythonBlock.source_flags
GetSourceFlags(h, b) ==
    CachedAttribute(h, b, "source_flags",
        The({ IF a.exc # NoExc THEN a
              ELSE Result(a.h, NoExc, FlagsFromAst(a.val.body)) :
                  a \in {GetAstNode(h, b)} }))

\* PythonBlock.flags
GetFlags(h, b) ==
    CachedAttribute(h, b, "flags",
        The({ IF sf.exc # NoExc THEN sf
              ELSE Result(sf.h, NoExc, BitOr(h[b].input_flags, sf.val)) :
                  sf \in {GetSourceFlags(h, b)} }))

StmtTuple(id, items) ==
    [id |-> id, items |-> items]

\* Lines 815-826: one sub-block per chunk, each with its one-statement view
\* already in place.
CarvedBlocks(n, chunks, flags) ==
    [i \in 1..Len(chunks) |->
        [ConstructFromAst(<<n + i, 0>>, chunks[i].nodes, chunks[i].text, flags)
            EXCEPT !.statements = <<StmtTuple(<<n + i, 0>>, <<n + i>>)>>]]

\* The body of PythonBlock.statements, lines 809-827.  A statement is named
\* by the block it wraps.  "emitted" records what the splitter yielded.
StatementsSplit(h, b, body, sp) ==
    IF sp.err # "none"
    THEN Result(h, <<"AssertionError", sp.err>>, NoVal)
    ELSE IF sp.chunks = <<Chunk(body, h[b].text)>>
    THEN Result(h, NoExc, StmtTuple(<<b, 1>>, <<b>>))
    ELSE The({ Result(f.h \o CarvedBlocks(Len(f.h), sp.chunks, f.val), NoExc,
                      StmtTuple(<<b, 1>>,
                                [i \in 1..Len(sp.chunks) |-> Len(f.h) + i])) :
                   f \in {GetFlags(h, b)} })

StatementsBody(h, b) ==
    The({ IF a.exc # NoExc THEN a
          ELSE The({ StatementsSplit([a.h EXCEPT ![b].emitted = <<sp>>], b,
                                     a.val.body, sp) :
                         sp \in {SplitCodeLines(a.val.body, h[b].text)} }) :
              a \in {GetAstNode(h, b)} })

GetStatements(h, b) ==
    CachedAttribute(h, b, "statements", StatementsBody(h, b))

RECURSIVE AstNodesOf(_, _, _, _)
\* Line 732: [n for b in blocks for n in b.ast_node.body]
AstNodesOf(h, bs, i, acc) ==
    IF i > Len(bs) THEN Result(h, NoExc, acc)
    ELSE The({ IF a.exc # NoExc THEN a
               ELSE AstNodesOf(a.h, bs, i + 1, acc \o a.val.body) :
                   a \in {GetAstNode(h, bs[i])} })

\* PythonBlock.concatenate(blocks, assume_contiguous=True)
\* A faulty variant of concatenate: the first block is returned for the lot.
ConcatenateFirst(h, bs) ==
    Result(h, NoExc, bs[1])

ConcatenateNodes(h, bs, t, ast_nodes) ==
    The({ IF f.exc # NoExc THEN f
          ELSE Result(Append(f.h, ConstructFromAst(<<Len(f.h) + 1, 0>>,
                                                   ast_nodes, t, f.val)),
                      NoExc, Len(f.h) + 1) :
              f \in {GetFlags(h, bs[1])} })

Concatenate(h, bs) ==
    IF Len(bs) = 1 THEN Result(h, NoExc, bs[1])
    ELSE The({ IF a.exc # NoExc THEN a
               ELSE ConcatenateNodes(a.h, bs,
                        FileTextConcatenate([i \in 1..Len(bs) |-> h[bs[i]].text]),
                        a.val) :
                   a \in {AstNodesOf(h, bs, 1, <<>>)} })

RECURSIVE Runs(_, _, _, _)
\* itertools.groupby: the maximal runs of consecutive items with equal keys.
Runs(items, keys, i, acc) ==
    IF i > Len(items) THEN acc
    ELSE IF acc # <<>> /\ acc[Len(acc)].key = keys[i]
    THEN Runs(items, keys, i + 1,
              [acc EXCEPT ![Len(acc)].items = Append(@, items[i])])
    ELSE Runs(items, keys, i + 1,
              Append(acc, [key |-> keys[i], items |-> <<items[i]>>]))

RECURSIVE ConcatRuns(_, _, _, _)
\* Lines 894-896: one concatenated block per run.
ConcatRuns(h, runs, i, acc) ==
    IF i > Len(runs) THEN Result(h, NoExc, acc)
    ELSE The({ IF c.exc # NoExc THEN c
               ELSE ConcatRuns(c.h, runs, i + 1,
                       Append(acc, [key |-> runs[i].key, block |-> c.val,
                                    items |-> runs[i].items])) :
                   c \in {Concatenate(h, runs[i].items)} })

\* PythonBlock.groupby(predicate), the generator run to its end.  keys[i] is
\* the predicate's value on the i-th statement.
GroupBy(h, b, keys) ==
    The({ IF st.exc # NoExc THEN st
          ELSE ConcatRuns(st.h, Runs(st.val.items, keys, 1, <<>>), 1, <<>>) :
              st \in {GetStatements(h, b)} })

\* PythonBlock(block, flags=f), lines 671-679.
Rewrap(h, b, f) ==
    The({ IF fl.exc # NoExc THEN fl
          ELSE Result(Append(fl.h, FromText(h[b].text, BitOr(f, fl.val))), NoExc,
                      Len(fl.h) + 1) :
              fl \in {GetFlags(h, b)} })

-----------------------------------------------------------------------------
(* The facade: blocks made over one source file and the operations on      *)
(* them.                                                                   *)

Kinds == {"Expr", "Future"}

\* The flags a caller passes.
CallerFlags == {0, FlagDivision}

\* The statement kinds of a layout: __future__ imports come first.
KindLayouts(nodes) ==
    { [i \in 1..Len(nodes) |-> [nodes[i] EXCEPT !.kind = k[i]]] :
        k \in { f \in [1..Len(nodes) -> Kinds] :
                  \A i \in 2..Len(nodes) :
                      f[i] = "Future" => f[i - 1] = "Future" } }

\* Where a caller cuts the file: at its ends and at the line starts.
CutPoints(ft) ==
    {ft.startpos, EndPos(ft)} \cup { <<l, 1>> : l \in 2..Len(ft.lines) }

Spans(ft) ==
    { sp \in CutPoints(ft) \X CutPoints(ft) : PosLT(sp[1], sp[2]) }
        \cup { <<ft.startpos, EndPos(ft)>> }

\* e1 ends where e2 starts.
Contiguous(h, bs) ==
    \A i \in 1..(Len(bs) - 1) :
        EndPos(h[bs[i]].text) = h[bs[i + 1]].text.startpos

BlockSeqs(h) ==
    UNION { [1..n -> 1..Len(h)] : n \in 1..MaxConcat }

Ret(exc, groups) ==
    [exc |-> exc, groups |-> groups]

Init ==
    /\ \E lines \in TextLines(FileLineSet, MaxFileLines) :
          /\ text = FileText(lines, <<1, 1>>)
          /\ \E nodes \in Layouts(lines, FALSE) : tree \in KindLayouts(nodes)
    /\ heap = <<>>
    /\ ret = Ret(NoExc, <<>>)
    /\ call = NoCall

\* What every operation does with its result.
Finish(result, groups) ==
    \E r \in {result} :
        /\ Len(r.h) <= MaxBlocks
        /\ heap' = r.h
        /\ ret' = Ret(r.exc, groups)
        /\ UNCHANGED <<text, tree, call>>

\* No operation has run yet on the blocks of the heap.
Pristine ==
    /\ ret = Ret(NoExc, <<>>)
    /\ \A b \in 1..Len(heap) :
          heap[b] = FromText(heap[b].text, heap[b].input_flags)

\* PythonBlock(text[a:b], flags=f).  The caller makes its blocks first, and
\* a further one from the slice that follows the last one, with the same
\* flags.
NewBlock(sp, f) ==
    /\ Pristine
    /\ Len(heap) < MaxRoots
    /\ heap # <<>> => sp[1] = EndPos(heap[Len(heap)].text)
    /\ heap # <<>> => f = heap[1].input_flags
    /\ Finish(Result(Append(heap, FromText(Slice(text, sp[1], sp[2]), f)), NoExc, NoVal),
           <<>>)

\* PythonBlock(b, flags=f)
RewrapBlock(b, f) ==
    /\ Cardinality({ c \in 1..Len(heap) : heap[c].made = "text" }) < MaxRoots
    /\ Finish(Rewrap(heap, b, f), <<>>)

\* b.ast_node
AccessAstNode(b) ==
    Finish(GetAstNode(heap, b), <<>>)

\* b.source_flags
AccessSourceFlags(b) ==
    Finish(GetSourceFlags(heap, b), <<>>)

\* b.flags
AccessFlags(b) ==
    Finish(GetFlags(heap, b), <<>>)

\* b.statements
AccessStatements(b) ==
    Finish(GetStatements(heap, b), <<>>)

\* list(b.groupby(predicate))
CallGroupBy(b) ==
    \E st \in {GetStatements(heap, b)} :
        IF st.exc # NoExc THEN Finish(st, <<>>)
        ELSE \E keys \in [1..Len(st.val.items) -> {0, 1}] :
                Finish(GroupBy(heap, b, keys), <<>>)

\* PythonBlock.concatenate(bs, assume_contiguous=True)
CallConcatenate(bs) ==
    /\ Contiguous(heap, bs)
    /\ Finish(Concatenate(heap, bs), <<>>)

Next ==
    \/ \E sp \in Spans(text), f \in CallerFlags : NewBlock(sp, f)
    \/ \E b \in 1..Len(heap) : RewrapBlock(b, FlagPrintFunction)
    \/ \E b \in 1..Len(heap) : AccessAstNode(b)
    \/ \E b \in 1..Len(heap) : AccessSourceFlags(b)
    \/ \E b \in 1..Len(heap) : AccessFlags(b)
    \/ \E b \in 1..Len(heap) : AccessStatements(b)
    \/ \E b \in 1..Len(heap) : CallGroupBy(b)
    \/ \E bs \in BlockSeqs(heap) : CallConcatenate(bs)

Spec ==
    Init /\ [][Next]_vars

-----------------------------------------------------------------------------
(* Properties of the facade. *)

Blocks == 1..Len(heap)

RECURSIVE JoinTexts(_)
\* ''.join of the joined texts.
JoinTexts(fts) ==
    IF fts = <<>> THEN <<>> ELSE Joined(Head(fts)) \o JoinTexts(Tail(fts))

\* The texts tile the span of t: the first starts where t starts, each ends
\* where the next starts, the last ends where t ends, and their
\* concatenation is the text of t.
Tiles(fts, t) ==
    /\ fts # <<>>
    /\ fts[1].startpos = t.startpos
    /\ \A i \in 1..(Len(fts) - 1) : EndPos(fts[i]) = fts[i + 1].startpos
    /\ EndPos(fts[Len(fts)]) = EndPos(t)
    /\ JoinTexts(fts) = Joined(t)

ChunkTexts(chunks) ==
    [i \in 1..Len(chunks) |-> chunks[i].text]

StatementTexts(b) ==
    [i \in 1..Len(heap[b].statements[1].items) |->
        heap[heap[b].statements[1].items[i]].text]

\* C1: for every block whose parse succeeded, the chunks the splitter emits
\* are contiguous, do not overlap and cover the whole span of the block, so
\* that the texts of the block's statements, concatenated in order, are the
\* block's text.
C1_ChunksTileBlock ==
    \A b \in Blocks :
        /\ heap[b].emitted # <<>>
              => Tiles(ChunkTexts(heap[b].emitted[1].chunks), heap[b].text)
        /\ heap[b].statements # <<>> => Tiles(StatementTexts(b), heap[b].text)

\* C1 witness: the parse of a block succeeded, the splitter stopped at the
\* assertion of line 464, and the chunks it had yielded by then do not reach
\* the end of the block.
C1_ChunksFallShort ==
    \E b \in Blocks :
        /\ heap[b].ast_node # <<>>
        /\ heap[b].emitted # <<>>
        /\ heap[b].emitted[1].err = "assert:464"
        /\ heap[b].emitted[1].chunks # <<>>
        /\ heap[b].statements = <<>>
        /\ ret.exc = <<"AssertionError", "assert:464">>

RECURSIVE BodiesOf(_)
\* The top-level nodes of a sequence of blocks, in order.
BodiesOf(items) ==
    IF items = <<>> THEN <<>>
    ELSE heap[Head(items)].ast_node[1].body \o BodiesOf(Tail(items))

\* C3: every statement holds at most one top-level node, and the top-level
\* nodes of a block are, in order, the nodes of its statements, each in
\* exactly one statement.
C3_OneNodePerStatement ==
    \A b \in Blocks :
        heap[b].statements # <<>> =>
            LET items == heap[b].statements[1].items
            IN  /\ \A i \in 1..Len(items) :
                      /\ heap[items[i]].ast_node # <<>>
                      /\ Len(heap[items[i]].ast_node[1].body) <= 1
                /\ heap[b].ast_node # <<>>
                /\ BodiesOf(items) = heap[b].ast_node[1].body

\* C3 witness: a block built by concatenate out of two blocks with a node
\* each has been split again into its statements.
C3_Witness ==
    \E b \in Blocks :
        /\ heap[b].made = "ast"
        /\ heap[b].statements # <<>>
        /\ Len(heap[b].statements[1].items) >= 2
        /\ Len(heap[b].ast_node[1].body) >= 2

CachedNames == {"ast_node", "statements", "flags", "source_flags"}

\* C4: the parse-and-annotate step runs at most once for a block and never
\* for a block made by __construct_from_ast, and an attribute that has been
\* computed stays the identical object.
C4_ComputeOnce ==
    [][ /\ \A b \in 1..Len(heap') :
              /\ heap'[b].parses <= 1
              /\ heap'[b].made = "ast" => heap'[b].parses = 0
        /\ \A b \in Blocks : \A name \in CachedNames :
              heap[b][name] # <<>> => heap'[b][name] = heap[b][name] ]_vars

\* C4 witness: a block made from text has all four attributes after one
\* parse, and a block carved out of it has its source_flags computed
\* without a parse.
C4_Witness ==
    \E b, c \in Blocks :
        /\ heap[b].made = "text" /\ heap[b].parses = 1
        /\ \A name \in CachedNames : heap[b][name] # <<>>
        /\ c # b /\ c \in { heap[b].statements[1].items[i] :
                              i \in 1..Len(heap[b].statements[1].items) }
        /\ heap[c].source_flags # <<>> /\ heap[c].parses = 0

\* The blocks whose parse has failed.
Failed(h) ==
    { b \in 1..Len(h) : h[b].failed # <<>> }

\* The operations that read the ast_node of block b.
ReadsAstNode(b) ==
    \/ AccessAstNode(b)
    \/ AccessSourceFlags(b)
    \/ AccessFlags(b)
    \/ AccessStatements(b)
    \/ CallGroupBy(b)
    \/ RewrapBlock(b, FlagPrintFunction)

\* C5: once the parse of a block has failed, the block stays failed with the
\* same failure object and without a tree, the parser is not run for it
\* again, and every operation that reads its ast_node raises that very
\* failure object.
C5_FailureCached ==
    [][ \A b \in Failed(heap) :
            /\ heap'[b].failed = heap[b].failed
            /\ heap'[b].ast_node = <<>>
            /\ heap'[b].parses = heap[b].parses
            /\ ReadsAstNode(b) => ret'.exc = heap[b].failed[1] ]_vars

\* C5 witness: a failed block has been read again, the cached failure was
\* re-raised at line 767 and is the exception the caller got.
C5_Witness ==
    \E b \in Failed(heap) :
        /\ heap[b].reraised
        /\ heap[b].parses = 1
        /\ ret.exc = heap[b].failed[1]

\* C6: the effective flags of every block are the bitwise OR of its input
\* flags and the flags its own code declares.
C6_FlagsAreInputOrSource ==
    \A b \in Blocks :
        (heap[b].flags # <<>> /\ heap[b].ast_node # <<>>) =>
            heap[b].flags[1] =
                BitOr(heap[b].input_flags, FlagsFromAst(heap[b].ast_node[1].body))

\* C6 witness: a block made by concatenate whose own code declares a flag
\* that its flags lack.
C6_ConcatenateDropsFlag ==
    \E b \in Blocks :
        /\ heap[b].made = "ast"
        /\ heap[b].statements = <<>>
        /\ FlagsFromAst(heap[b].ast_node[1].body) = FlagDivision
        /\ heap[b].flags = <<0>>

-----------------------------------------------------------------------------
(* Properties of the splitter. *)

\* The preconditions of _split_code_lines: the text starts no later than the
\* first node, the starts of the nodes increase strictly, the last node
\* starts before the end of the text, and an endpos lies after the start of
\* its node and no later than the start of the next.
SplitPreconditions(ast_nodes, t) ==
    /\ ast_nodes # <<>>
    /\ PosLE(t.startpos, ast_nodes[1].startpos)
    /\ PosLT(ast_nodes[Len(ast_nodes)].startpos, EndPos(t))
    /\ \A i \in 1..Len(ast_nodes) :
          /\ PosLT(ast_nodes[i].startpos, NextStart(ast_nodes, t, i))
          /\ ast_nodes[i].endpos # NoPos =>
                /\ PosLT(ast_nodes[i].startpos, ast_nodes[i].endpos)
                /\ PosLE(ast_nodes[i].endpos, NextStart(ast_nodes, t, i))

\* The chunks that hold a node, in order.
NodeChunks(chunks) ==
    SelectSeq(chunks, LAMBDA c : c.nodes # <<>>)

\* C2: on every input that meets the preconditions no assertion of the
\* splitter fails, and the chunk of each node ends after the node's start
\* and no later than the start of the next node (the end of the text for the
\* last node).
C2_BoundariesIncrease ==
    (call.op = "split" /\ SplitPreconditions(tree, text)) =>
        /\ call.out.err = "none"
        /\ Len(NodeChunks(call.out.chunks)) = Len(tree)
        /\ \A i \in 1..Len(tree) :
              LET c == NodeChunks(call.out.chunks)[i]
              IN  /\ c.nodes = <<tree[i]>>
                  /\ c.text.startpos = tree[i].startpos
                  /\ PosLT(tree[i].startpos, EndPos(c.text))
                  /\ PosLE(EndPos(c.text), NextStart(tree, text, i))

\* C2 witness: the text has no final line break, its last line reads as a
\* comment, a node starts on that line, and the assertion of line 464 has
\* failed.
C2_Assert464 ==
    /\ call.op = "split"
    /\ SplitPreconditions(tree, text)
    /\ call.out.err = "assert:464"
    /\ tree[Len(tree)].endpos = NoPos

-----------------------------------------------------------------------------
(* group_by on a block over a whole file. *)

GroupInit ==
    /\ \E lines \in TextLines(FileLineSet, MaxGroupLines) :
          /\ text = FileText(lines, <<1, 1>>)
          /\ \E nodes \in Layouts(lines, FALSE) : tree \in KindLayouts(nodes)
    /\ \E f \in CallerFlags : heap = <<FromText(text, f)>>
    /\ ret = Ret(NoExc, <<>>)
    /\ call = NoCall

\* list(PythonBlock(text).groupby(predicate)); keys[i] is the value of the
\* predicate on the i-th statement.
RunGroupBy ==
    /\ call = NoCall
    /\ \E st \in {GetStatements(heap, 1)} :
          IF st.exc # NoExc
          THEN /\ heap' = st.h
               /\ ret' = Ret(st.exc, <<>>)
               /\ call' = [op |-> "groupby", keys |-> <<>>]
          ELSE \E keys \in [1..Len(st.val.items) -> {0, 1}] :
                  \E r \in {GroupBy(heap, 1, keys)} :
                      /\ heap' = r.h
                      /\ ret' = Ret(r.exc, r.val)
                      /\ call' = [op |-> "groupby", keys |-> keys]
    /\ UNCHANGED <<text, tree>>

GroupNext ==
    RunGroupBy

GroupSpec ==
    GroupInit /\ [][GroupNext]_vars

RECURSIVE GroupItems(_)
\* The statements of the groups, in order.
GroupItems(groups) ==
    IF groups = <<>> THEN <<>>
    ELSE Head(groups).items \o GroupItems(Tail(groups))

RECURSIVE GroupKeys(_)
\* The key of its group, for each statement of the groups in order.
GroupKeys(groups) ==
    IF groups = <<>> THEN <<>>
    ELSE [i \in 1..Len(Head(groups).items) |-> Head(groups).key]
             \o GroupKeys(Tail(groups))

\* C7: the groups group_by returns partition the statements of the block in
\* order, every statement of a group has the group's predicate value, two
\* consecutive groups have different values, and the texts of the groups'
\* blocks, concatenated in order, are the text of the block.
C7_GroupsAreMaximalRuns ==
    (call.op = "groupby" /\ ret.exc = NoExc) =>
        /\ GroupItems(ret.groups) = heap[1].statements[1].items
        /\ GroupKeys(ret.groups) = call.keys
        /\ \A i \in 1..Len(ret.groups) : ret.groups[i].items # <<>>
        /\ \A i \in 1..(Len(ret.groups) - 1) :
              ret.groups[i].key # ret.groups[i + 1].key
        /\ Tiles([i \in 1..Len(ret.groups) |-> heap[ret.groups[i].block].text],
                 heap[1].text)

\* C7 witness: group_by returned several groups, one of them made of
\* several statements.
C7_Witness ==
    /\ call.op = "groupby"
    /\ ret.exc = NoExc
    /\ Len(ret.groups) >= 2
    /\ \E i \in 1..Len(ret.groups) :
          /\ Len(ret.groups[i].items) >= 2
          /\ heap[ret.groups[i].block].made = "ast"
          /\ Len(heap[ret.groups[i].block].ast_node[1].body) >= 2

-----------------------------------------------------------------------------
(* PythonStatement.get_assignment_literal_value on a statement.  A node of *)
(* the tree is a record with the fields its class has.                     *)

None == [type |-> "NoneType"]

\* PythonStatement.ast_node of the statement that wraps block s.
StatementAstNode(h, s) ==
    LET ast_nodes == h[s].ast_node[1].body
    IN  IF Len(ast_nodes) = 0 THEN [exc |-> NoExc, val |-> None]
        ELSE IF Len(ast_nodes) = 1 THEN [exc |-> NoExc, val |-> ast_nodes[1]]
        ELSE [exc |-> <<"AssertionError", "More than one AST node in block">>,
              val |-> NoVal]

\* PythonStatement.is_single_assign, on the value of ast_node.
IsSingleAssign(n) ==
    n.type = "Assign" /\ Len(n.targets) = 1

\* hasattr(obj, name)
HasAttr(obj, name) ==
    name \in DOMAIN obj

\* ast.literal_eval: the value of a literal, ValueError for any other
\* expression.
LiteralEval(v) ==
    IF v.type = "Num" THEN [exc |-> NoExc, val |-> v.n]
    ELSE [exc |-> <<"ValueError", "malformed string">>, val |-> NoVal]

\* Lines 606-612, given the value of self.ast_node.
AssignmentOf(n) ==
    IF ~IsSingleAssign(n)
    THEN [exc |-> <<"ValueError", "Statement is not an assignment to a single name">>,
          val |-> NoVal]
    ELSE IF ~HasAttr(n.targets[1], "id")
    THEN [exc |-> <<"AttributeError", "id">>, val |-> NoVal]
    ELSE LET literal_value == LiteralEval(n.value)
         IN  IF literal_value.exc # NoExc THEN literal_value
             ELSE [exc |-> NoExc, val |-> <<n.targets[1].id, literal_value.val>>]

\* PythonStatement.get_assignment_literal_value
GetAssignmentLiteralValue(h, s) ==
    LET n == StatementAstNode(h, s)
    IN  IF n.exc # NoExc THEN n ELSE AssignmentOf(n.val)

\* The targets and the values of the assignments of the generated
\* statements.
AssignTargets ==
    { [type |-> "Name", id |-> "a"], [type |-> "Name", id |-> "b"],
      [type |-> "Attribute", attr |-> "a"], [type |-> "Subscript"],
      [type |-> "Tuple"] }

AssignValues ==
    { [type |-> "Num", n |-> 0], [type |-> "Num", n |-> 1], [type |-> "Call"] }

\* The trees of the generated statements: a comment or blank chunk, an
\* expression, an import, an assignment.
StatementBodies ==
    { <<>>, << [type |-> "Expr"] >>, << [type |-> "Import"] >> }
        \cup { << [type |-> "Assign", targets |-> ts, value |-> v] >> :
                  ts \in UNION { [1..n -> AssignTargets] : n \in 1..MaxTargets },
                  v \in AssignValues }

AssignInit ==
    /\ text = FileText(<< <<"x">> >>, <<1, 1>>)
    /\ tree \in StatementBodies
    /\ heap = <<ConstructFromAst(<<1, 0>>, tree, text, 0)>>
    /\ ret = Ret(NoExc, <<>>)
    /\ call = NoCall

RunGetAssignment ==
    /\ call = NoCall
    /\ call' = [op |-> "get_assignment_literal_value",
                out |-> GetAssignmentLiteralValue(heap, 1)]
    /\ UNCHANGED <<text, tree, heap, ret>>

AssignNext ==
    RunGetAssignment

AssignSpec ==
    AssignInit /\ [][AssignNext]_vars

\* The statement is an assignment to a single name.
SingleNameAssign(body) ==
    /\ Len(body) = 1
    /\ body[1].type = "Assign"
    /\ Len(body[1].targets) = 1
    /\ body[1].targets[1].type = "Name"

\* C8: assignment extraction fails with a ValueError on every statement that
\* is not an assignment to a single name, and what it returns is the target
\* name and the value of a single-name assignment.
C8_ValueErrorUnlessSingleName ==
    call.op = "get_assignment_literal_value" =>
        /\ ~SingleNameAssign(tree) =>
              (call.out.exc # NoExc /\ call.out.exc[1] = "ValueError")
        /\ call.out.exc = NoExc =>
              /\ SingleNameAssign(tree)
              /\ call.out.val = <<tree[1].targets[1].id, tree[1].value.n>>

\* C8 witness: the single target of the assignment is not a name, and the
\* extraction ended with an AttributeError.
C8_AttributeError ==
    /\ call.op = "get_assignment_literal_value"
    /\ Len(tree) = 1 /\ tree[1].type = "Assign" /\ Len(tree[1].targets) = 1
    /\ tree[1].targets[1].type # "Name"
    /\ call.out.exc = <<"AttributeError", "id">>

-----------------------------------------------------------------------------
(* The ordered child enumerator.  A Python value is a record with a tag:   *)
(* an AST node, a list (or tuple, or generator) of values, or None.        *)

ListOf(items) ==
    [tag |-> "list", items |-> items]

\* zip(a, b)
Zip(a, b) ==
    ListOf([i \in 1..(IF Len(a) <= Len(b) THEN Len(a) ELSE Len(b)) |->
               ListOf(<<a[i], b[i]>>)])

RECURSIVE FlattenAstNodes(_)
RECURSIVE FlattenItems(_)
\* _flatten_ast_nodes
FlattenAstNodes(arg) ==
    IF arg.tag = "None" THEN [exc |-> NoExc, val |-> <<>>]
    ELSE IF arg.tag = "AST" THEN [exc |-> NoExc, val |-> <<arg>>]
    ELSE IF arg.tag = "list" THEN FlattenItems(arg.items)
    ELSE [exc |-> <<"TypeError", "_flatten_ast_nodes">>, val |-> NoVal]

\* Lines 48-50: the loop over the items of a list.
FlattenItems(items) ==
    IF items = <<>> THEN [exc |-> NoExc, val |-> <<>>]
    ELSE LET x == FlattenAstNodes(Head(items))
             rest == FlattenItems(Tail(items))
         IN  IF x.exc # NoExc THEN x
             ELSE IF rest.exc # NoExc THEN rest
             ELSE [exc |-> NoExc, val |-> x.val \o rest.val]

\* ast.iter_child_nodes: the child nodes in the order of the node's fields.
IterChildNodes(node) ==
    ListOf(node.children)

\* A faulty variant of the enumerator: the fields of a Dict in the order of
\* ast.iter_child_nodes, all keys before all values.
IterChildNodesKeysFirst(node) ==
    IF node.tag # "AST" THEN [exc |-> <<"TypeError", "">>, val |-> NoVal]
    ELSE IF node.type = "Dict"
    THEN [exc |-> NoExc, val |-> <<ListOf(node.keys), ListOf(node.values)>>]
    ELSE [exc |-> NoExc, val |-> <<IterChildNodes(node)>>]

\* A faulty variant of the enumerator: the children of every node in the
\* order of its fields.
IterChildNodesFieldOrder(node) ==
    IF node.tag # "AST" THEN [exc |-> <<"TypeError", "">>, val |-> NoVal]
    ELSE [exc |-> NoExc, val |-> <<IterChildNodes(node)>>]

\* _iter_child_nodes_in_order_internal_1: what the generator yields.
IterChildNodesInOrderInternal1(node) ==
    IF node.tag # "AST" THEN [exc |-> <<"TypeError", "">>, val |-> NoVal]
    ELSE IF node.type = "Dict"
    THEN [exc |-> NoExc, val |-> <<Zip(node.keys, node.values)>>]
    ELSE IF node.type = "FunctionDef"
    THEN [exc |-> NoExc,
          val |-> <<ListOf(<<ListOf(node.decorator_list), node.args,
                            ListOf(node.body)>>)>>]
    ELSE IF node.type = "arguments"
    THEN LET num_no_default == Len(node.args) - Len(node.defaults)
         IN  [exc |-> NoExc,
              val |-> <<ListOf(SubSeq(node.args, 1, num_no_default)),
                        Zip(SubSeq(node.args, num_no_default + 1, Len(node.args)),
                            node.defaults)>>]
    ELSE IF node.type = "IfExp"
    THEN [exc |-> NoExc, val |-> <<ListOf(<<node.body, node.test, node.orelse>>)>>]
    ELSE IF node.type = "ClassDef"
    THEN [exc |-> NoExc,
          val |-> <<ListOf(<<ListOf(node.decorator_list), ListOf(node.bases),
                            ListOf(node.body)>>)>>]
    ELSE [exc |-> NoExc, val |-> <<IterChildNodes(node)>>]

\* _iter_child_nodes_in_order, the generator run to its end.
IterChildNodesInOrder(node) ==
    LET yielded == IterChildNodesInOrderInternal1(node)
    IN  IF yielded.exc # NoExc THEN yielded
        ELSE FlattenAstNodes(ListOf(yielded.val))

AstLeaf(type, id) ==
    [tag |-> "AST", type |-> type, id |-> id, children |-> <<>>]

\* The keys and values of the generated mapping literals.
DictItems ==
    { AstLeaf("Name", 1), AstLeaf("Name", 2), AstLeaf("Num", 3) }

DictNode(keys, values) ==
    [tag |-> "AST", type |-> "Dict", keys |-> keys, values |-> values]

EnumInit ==
    /\ text = FileText(<< <<"x">> >>, <<1, 1>>)
    /\ \E n \in 0..MaxPairs :
          \E keys \in [1..n -> DictItems], values \in [1..n -> DictItems] :
              tree = <<DictNode(keys, values)>>
    /\ heap = <<>>
    /\ ret = Ret(NoExc, <<>>)
    /\ call = NoCall

RunIterChildNodes ==
    /\ call = NoCall
    /\ call' = [op |-> "iter_child_nodes_in_order",
                out |-> IterChildNodesInOrder(tree[1])]
    /\ UNCHANGED <<text, tree, heap, ret>>

EnumNext ==
    RunIterChildNodes

EnumSpec ==
    EnumInit /\ [][EnumNext]_vars

\* C9: for a mapping literal of n key/value pairs the enumerator yields 2n
\* children, key 1, value 1, key 2, value 2 and so on: each key is followed
\* at once by its value.
C9_KeyThenValue ==
    (call.op = "iter_child_nodes_in_order" /\ tree[1].type = "Dict") =>
        /\ call.out.exc = NoExc
        /\ Len(call.out.val) = 2 * Len(tree[1].keys)
        /\ \A i \in 1..Len(tree[1].keys) :
              /\ call.out.val[2 * i - 1] = tree[1].keys[i]
              /\ call.out.val[2 * i] = tree[1].values[i]

\* C9 witness: the children of a mapping literal of two pairs, whose second
\* key differs from its first value, have been enumerated.
C9_Witness ==
    /\ call.op = "iter_child_nodes_in_order"
    /\ tree[1].type = "Dict"
    /\ Len(tree[1].keys) = 2
    /\ tree[1].keys[2] # tree[1].values[1]
    /\ Len(call.out.val) = 4

-----------------------------------------------------------------------------
(* The parser on a string-literal candidate.  The texts here are over the  *)
(* characters "x", "=", "+", " ", "#" and the two quote characters; they   *)
(* hold no backslash and no string prefix; any other character is code.    *)

QuoteChars == {"'", "\""}

PrefixChars == {"b", "B", "r", "R", "u", "U"}

RECURSIVE FindTripleQuote(_, _, _)
\* The first index j >= i where three quote characters q start; 0 if none.
FindTripleQuote(c, i, q) ==
    IF i + 2 > Len(c) THEN 0
    ELSE IF c[i] = q /\ c[i + 1] = q /\ c[i + 2] = q THEN i
    ELSE FindTripleQuote(c, i + 1, q)

RECURSIVE FindQuote(_, _, _)
\* The first index j >= i of the quote character q on the same line; 0 if
\* none.
FindQuote(c, i, q) ==
    IF i > Len(c) \/ c[i] = "\n" THEN 0
    ELSE IF c[i] = q THEN i
    ELSE FindQuote(c, i + 1, q)

RECURSIVE SkipComment(_, _)
\* The index of the line break that ends the comment, or Len(c) + 1.
SkipComment(c, i) ==
    IF i > Len(c) \/ c[i] = "\n" THEN i ELSE SkipComment(c, i + 1)

NotAString == [ok |-> FALSE, s |-> <<>>]

RECURSIVE LexStrings(_, _, _, _)
\* The source from index i on is a sequence of n more string literals,
\* adjacent or separated by blanks, followed by nothing but blanks, comments
\* and line breaks: their concatenated value.
LexStrings(c, i, acc, n) ==
    IF i > Len(c) THEN (IF n > 0 THEN [ok |-> TRUE, s |-> acc] ELSE NotAString)
    ELSE IF c[i] = " " THEN LexStrings(c, i + 1, acc, n)
    ELSE IF c[i] = "#"
    THEN The({ LexStrings(c, j, acc, n) : j \in {SkipComment(c, i)} })
    ELSE IF c[i] = "\n"
    THEN (IF n > 0 /\ IsCommentOrBlank(SubSeq(c, i, Len(c)))
          THEN [ok |-> TRUE, s |-> acc] ELSE NotAString)
    ELSE IF c[i] \notin QuoteChars THEN NotAString
    ELSE IF i + 2 <= Len(c) /\ c[i + 1] = c[i] /\ c[i + 2] = c[i]
    THEN The({ IF j = 0 THEN NotAString
               ELSE The({ LexStrings(c, j + 3, value, n + 1) :
                            value \in {acc \o SubSeq(c, i + 3, j - 1)} }) :
                   j \in {FindTripleQuote(c, i + 3, c[i])} })
    ELSE The({ IF j = 0 THEN NotAString
               ELSE The({ LexStrings(c, j + 1, value, n + 1) :
                            value \in {acc \o SubSeq(c, i + 1, j - 1)} }) :
                   j \in {FindQuote(c, i + 1, c[i])} })

\* _test_parse_string_literal: the value when the text parses to a single
\* string literal, else None.
TestParseStringLiteral(subtext, flags) ==
    The({ LexStrings(c, 1, <<>>, 0) : c \in {Joined(subtext)} })

-----------------------------------------------------------------------------
(* _annotate_ast_startpos.  The startpos and endpos attributes the         *)
(* annotator sets on the nodes are held in a table indexed by the nodes'   *)
(* ids; NoPos stands for an attribute that is not set.                     *)

\* FilePos.__add__
FilePosAdd(pos, delta) ==
    IF delta[1] = 0 THEN <<pos[1], pos[2] + delta[2]>>
    ELSE <<pos[1] + delta[1], 1 + delta[2]>>

RECURSIVE StartMatches(_, _, _)
\* re.finditer("[bBrRuU]*[\"\']", line) from index i on, run being the index
\* where the prefix characters just before i start (0 if there are none):
\* for each match, its last character and its 0-based start.
StartMatches(line, i, run) ==
    IF i > Len(line) THEN <<>>
    ELSE IF line[i] \in QuoteChars
    THEN <<[quote |-> line[i], start |-> (IF run # 0 THEN run ELSE i) - 1]>>
             \o StartMatches(line, i + 1, 0)
    ELSE IF line[i] \in PrefixChars
    THEN StartMatches(line, i + 1, IF run # 0 THEN run ELSE i)
    ELSE StartMatches(line, i + 1, 0)

RECURSIVE EndMatches(_, _)
\* re.finditer("[\"\']", line) from index i on.
EndMatches(line, i) ==
    IF i > Len(line) THEN <<>>
    ELSE IF line[i] \in QuoteChars
    THEN <<[quote |-> line[i], start |-> i - 1]>> \o EndMatches(line, i + 1)
    ELSE EndMatches(line, i + 1)

\* The column of the first character of line lineno of the text.
LineStartCol(t, lineno) ==
    IF lineno = t.startpos[1] THEN t.startpos[2] ELSE 1

RECURSIVE StartposCandidates(_, _, _)
\* Lines 311-319: the candidates on the lines from start_lineno to
\* first_end_lineno.
StartposCandidates(t, start_lineno, first_end_lineno) ==
    IF start_lineno > first_end_lineno THEN <<>>
    ELSE LET ms == StartMatches(LineAt(t, start_lineno), 1, 0)
         IN  [k \in 1..Len(ms) |->
                 [quote |-> ms[k].quote,
                  pos |-> <<start_lineno,
                            ms[k].start + LineStartCol(t, start_lineno)>>]]
             \o StartposCandidates(t, start_lineno + 1, first_end_lineno)

\* Lines 342-347, reversed as line 363 reads them.
ReversedEndposCandidates(t, end_lineno) ==
    LET ms == EndMatches(LineAt(t, end_lineno), 1)
    IN  [k \in 1..Len(ms) |->
            [quote |-> ms[Len(ms) + 1 - k].quote,
             pos |-> <<end_lineno,
                       ms[Len(ms) + 1 - k].start + LineStartCol(t, end_lineno) + 1>>]]

\* Lines 361-374: the (startpos, endpos) pairs to try, those with equal quote
\* characters first.
Candidates(ends, starts) ==
    LET pairs == [k \in 1..(Len(ends) * Len(starts)) |->
                     [e |-> ends[((k - 1) \div Len(starts)) + 1],
                      s |-> starts[((k - 1) % Len(starts)) + 1]]]
        ordered == SelectSeq(pairs, LAMBDA p : PosLT(p.s.pos, p.e.pos))
    IN  SelectSeq(ordered, LAMBDA p : p.s.quote = p.e.quote)
            \o SelectSeq(ordered, LAMBDA p : p.s.quote # p.e.quote)

\* str.startswith
StartsWith(str, prefix) ==
    Len(prefix) <= Len(str) /\ SubSeq(str, 1, Len(prefix)) = prefix

\* A faulty variant of the candidate loop: a candidate that parses to a
\* prefix of the target string is taken for the string.
TryCandidatesPrefix(cands, target_str, t, flags) ==
    The({ LET hits == { k \in 1..Len(cands) :
                          parsed[k].ok /\ StartsWith(target_str, parsed[k].s) }
              first == CHOOSE k \in hits : \A m \in hits : k <= m
          IN  IF hits # {}
              THEN [found |-> TRUE, startpos |-> cands[first].s.pos,
                    endpos |-> cands[first].e.pos, matched_prefix |-> {}]
              ELSE [found |-> FALSE, startpos |-> NoPos, endpos |-> NoPos,
                    matched_prefix |-> {}] :
              parsed \in
                  { [k \in 1..Len(cands) |->
                        TestParseStringLiteral(
                            Slice(t, cands[k].s.pos, cands[k].e.pos), flags)] } })

\* A faulty variant of the candidate loop: when some candidate parses to a
\* prefix of the target string, every start position is kept.
TryCandidatesUnnarrowed(cands, target_str, t, flags) ==
    The({ LET hits == { k \in 1..Len(cands) :
                          parsed[k].ok /\ parsed[k].s = target_str }
              first == CHOOSE k \in hits : \A m \in hits : k <= m
              prefixes == { m \in 1..Len(cands) :
                              /\ parsed[m].ok
                              /\ StartsWith(target_str, parsed[m].s) }
          IN  IF hits # {}
              THEN [found |-> TRUE, startpos |-> cands[first].s.pos,
                    endpos |-> cands[first].e.pos, matched_prefix |-> {}]
              ELSE [found |-> FALSE, startpos |-> NoPos, endpos |-> NoPos,
                    matched_prefix |->
                        IF prefixes = {} THEN {}
                        ELSE { cands[k].s.pos : k \in 1..Len(cands) }] :
              parsed \in
                  { [k \in 1..Len(cands) |->
                        TestParseStringLiteral(
                            Slice(t, cands[k].s.pos, cands[k].e.pos), flags)] } })

\* Lines 373-389: the first candidate that parses to the target string; when
\* there is none, the start positions of those that parse to a prefix of it.
TryCandidates(cands, target_str, t, flags) ==
    The({ LET hits == { k \in 1..Len(cands) :
                          parsed[k].ok /\ parsed[k].s = target_str }
              first == CHOOSE k \in hits : \A m \in hits : k <= m
          IN  IF hits # {}
              THEN [found |-> TRUE, startpos |-> cands[first].s.pos,
                    endpos |-> cands[first].e.pos, matched_prefix |-> {}]
              ELSE [found |-> FALSE, startpos |-> NoPos, endpos |-> NoPos,
                    matched_prefix |->
                        { cands[k].s.pos :
                            k \in { m \in 1..Len(cands) :
                                      /\ parsed[m].ok
                                      /\ StartsWith(target_str, parsed[m].s) } }] :
              parsed \in
                  { [k \in 1..Len(cands) |->
                        TestParseStringLiteral(
                            Slice(t, cands[k].s.pos, cands[k].e.pos), flags)] } })

NotFound(what) ==
    [exc |-> what, startpos |-> NoPos, endpos |-> NoPos]

RECURSIVE SearchString(_, _, _, _, _, _)
\* Lines 337-402: the loop over the lines where the string can end.
SearchString(target_str, t, flags, end_lineno, first_end_lineno, startpos_candidates) ==
    IF end_lineno > EndPos(t)[1]
    THEN NotFound(<<"ValueError", "Couldn't find exact position">>)
    ELSE LET ends == ReversedEndposCandidates(t, end_lineno)
         IN  IF ends = <<>>
             THEN IF end_lineno = first_end_lineno
                  THEN NotFound(<<"AssertionError", "No quote char found">>)
                  ELSE SearchString(target_str, t, flags, end_lineno + 1,
                                    first_end_lineno, startpos_candidates)
             ELSE The({ IF r.found
                        THEN [exc |-> NoExc, startpos |-> r.startpos,
                              endpos |-> r.endpos]
                        ELSE IF r.matched_prefix = {}
                        THEN NotFound(<<"ValueError", "Couldn't find exact position">>)
                        ELSE SearchString(target_str, t, flags, end_lineno + 1,
                                 first_end_lineno,
                                 SelectSeq(startpos_candidates,
                                           LAMBDA c : c.pos \in r.matched_prefix)) :
                            r \in { TryCandidates(pairs, target_str, t, flags) :
                                      pairs \in {Candidates(ends, startpos_candidates)} } })

\* Lines 307-402: the search for the position of a multi-line string.
FindString(ast_node, minpos, t, flags) ==
    LET first_end_lineno == t.startpos[1] + ast_node.lineno - 1
    IN  IF ~(minpos[1] <= first_end_lineno)
        THEN NotFound(<<"AssertionError", "assert:312">>)
        ELSE SearchString(ast_node.s, t, flags, first_end_lineno, first_end_lineno,
                          StartposCandidates(t, minpos[1], first_end_lineno))

\* The result of an annotation: the exception it raised, the attributes of
\* the nodes after it, and what it returned.
Annotated(exc, attrs, leftstr) ==
    [exc |-> exc, attrs |-> attrs, leftstr |-> leftstr]

\* A faulty variant of the node's own step: a node that takes its start from
\* its leftmost string child reports FALSE.
AnnotateNodeUnflagged(ast_node, minpos, t, flags, attrs, leftstr_node) ==
    IF ~HasAttr(ast_node, "lineno") THEN Annotated(NoExc, attrs, FALSE)
    ELSE IF ast_node.col_offset >= 0
    THEN Annotated(NoExc,
             [attrs EXCEPT ![ast_node.id].startpos =
                 FilePosAdd(t.startpos, <<ast_node.lineno - 1, ast_node.col_offset>>)],
             FALSE)
    ELSE IF leftstr_node # <<>>
    THEN Annotated(NoExc,
             [attrs EXCEPT ![ast_node.id].startpos =
                 attrs[leftstr_node[1].id].startpos],
             FALSE)
    ELSE IF ast_node.type # "Str"
    THEN Annotated(<<"ValueError", "got a non-string col_offset=-1">>, attrs, FALSE)
    ELSE The({ IF r.exc # NoExc THEN Annotated(r.exc, attrs, FALSE)
               ELSE Annotated(NoExc,
                        [attrs EXCEPT ![ast_node.id].startpos = r.startpos,
                                      ![ast_node.id].endpos = r.endpos],
                        TRUE) :
                   r \in {FindString(ast_node, minpos, t, flags)} })

\* Lines 261-402: the node itself, once its children are done.  leftstr_node
\* is <<>> for None.
AnnotateNode(ast_node, minpos, t, flags, attrs, leftstr_node) ==
    IF ~HasAttr(ast_node, "lineno") THEN Annotated(NoExc, attrs, FALSE)
    ELSE IF ast_node.col_offset >= 0
    THEN Annotated(NoExc,
             [attrs EXCEPT ![ast_node.id].startpos =
                 FilePosAdd(t.startpos, <<ast_node.lineno - 1, ast_node.col_offset>>)],
             FALSE)
    ELSE IF ast_node.col_offset # -1
    THEN Annotated(<<"AssertionError", "assert:273">>, attrs, FALSE)
    ELSE IF leftstr_node # <<>>
    THEN IF ast_node.type = "Str"
         THEN Annotated(<<"AssertionError", "assert:292">>, attrs, FALSE)
         ELSE IF leftstr_node[1].lineno # ast_node.lineno
         THEN Annotated(<<"AssertionError", "assert:293">>, attrs, FALSE)
         ELSE IF leftstr_node[1].col_offset # -1
         THEN Annotated(<<"AssertionError", "assert:294">>, attrs, FALSE)
         ELSE Annotated(NoExc,
                  [attrs EXCEPT ![ast_node.id].startpos =
                      attrs[leftstr_node[1].id].startpos],
                  TRUE)
    ELSE IF ast_node.type # "Str"
    THEN Annotated(<<"ValueError", "got a non-string col_offset=-1">>, attrs, FALSE)
    ELSE The({ IF r.exc # NoExc THEN Annotated(r.exc, attrs, FALSE)
               ELSE Annotated(NoExc,
                        [attrs EXCEPT ![ast_node.id].startpos = r.startpos,
                                      ![ast_node.id].endpos = r.endpos],
                        TRUE) :
                   r \in {FindString(ast_node, minpos, t, flags)} })

RECURSIVE AnnotateAstStartpos(_, _, _, _, _)
RECURSIVE AnnotateChildren(_, _, _, _, _, _, _, _, _)
RECURSIVE AnnotateChildrenStrict(_, _, _, _, _, _, _, _, _)
\* A faulty variant of the loop over the children: a child that starts at
\* the lower bound is out of order too.
AnnotateChildrenStrict(ast_node, minpos, children, i, child_minpos, leftstr_node, t, flags, attrs) ==
    IF i > Len(children)
    THEN AnnotateNode(ast_node, minpos, t, flags, attrs, leftstr_node)
    ELSE The({ IF r.exc # NoExc THEN r
               ELSE IF ~HasAttr(children[i], "lineno")
               THEN AnnotateChildrenStrict(ast_node, minpos, children, i + 1, child_minpos,
                        IF i = 1 /\ r.leftstr THEN <<children[i]>> ELSE leftstr_node,
                        t, flags, r.attrs)
               ELSE IF PosLE(r.attrs[children[i].id].startpos, child_minpos)
               THEN Annotated(<<"AssertionError", "Got out-of-order AST node(s)">>,
                              r.attrs, FALSE)
               ELSE AnnotateChildrenStrict(ast_node, minpos, children, i + 1,
                        r.attrs[children[i].id].startpos,
                        IF i = 1 /\ r.leftstr THEN <<children[i]>> ELSE leftstr_node,
                        t, flags, r.attrs) :
                   r \in {AnnotateAstStartpos(children[i], child_minpos, t, flags, attrs)} })

\* Lines 232-260: the loop over the children, from the i-th child on.
AnnotateChildren(ast_node, minpos, children, i, child_minpos, leftstr_node, t, flags, attrs) ==
    IF i > Len(children)
    THEN AnnotateNode(ast_node, minpos, t, flags, attrs, leftstr_node)
    ELSE The({ IF r.exc # NoExc THEN r
               ELSE IF ~HasAttr(children[i], "lineno")
               THEN AnnotateChildren(ast_node, minpos, children, i + 1, child_minpos,
                        IF i = 1 /\ r.leftstr THEN <<children[i]>> ELSE leftstr_node,
                        t, flags, r.attrs)
               ELSE IF PosLT(r.attrs[children[i].id].startpos, child_minpos)
               THEN Annotated(<<"AssertionError", "Got out-of-order AST node(s)">>,
                              r.attrs, FALSE)
               ELSE AnnotateChildren(ast_node, minpos, children, i + 1,
                        r.attrs[children[i].id].startpos,
                        IF i = 1 /\ r.leftstr THEN <<children[i]>> ELSE leftstr_node,
                        t, flags, r.attrs) :
                   r \in {AnnotateAstStartpos(children[i], child_minpos, t, flags, attrs)} })

\* _annotate_ast_startpos(ast_node, minpos, text, flags)
AnnotateAstStartpos(ast_node, minpos, t, flags, attrs) ==
    The({ IF children.exc # NoExc THEN Annotated(children.exc, attrs, FALSE)
          ELSE AnnotateChildren(ast_node, minpos, children.val, 1, minpos, <<>>,
                                t, flags, attrs) :
              children \in {IterChildNodesInOrder(ast_node)} })

-----------------------------------------------------------------------------
(* What the parser is given and what it reports, for the annotator: texts  *)
(* made of whole statements, and the tree compile() builds for each, with  *)
(* the lineno and col_offset it attaches.  A multi-line string, and every  *)
(* node whose leftmost leaf is one, gets the line where the string (the    *)
(* first of adjacent strings) ends, and col_offset -1.                     *)

AstNode(id, type, lineno, col_offset, children) ==
    [tag |-> "AST", id |-> id, type |-> type, lineno |-> lineno,
     col_offset |-> col_offset, children |-> children]

\* A node of a class without position attributes.
AstPlain(id, type, children) ==
    [tag |-> "AST", id |-> id, type |-> type, children |-> children]

AstStr(id, lineno, col_offset, str) ==
    [tag |-> "AST", id |-> id, type |-> "Str", lineno |-> lineno,
     col_offset |-> col_offset, children |-> <<>>, s |-> str]

AstName(id, ctxid, lineno, col_offset, ctx) ==
    AstNode(id, "Name", lineno, col_offset, <<AstPlain(ctxid, ctx, <<>>)>>)

StatementKinds ==
    {"comment", "name", "str", "mlstr", "assign", "binop", "adjacent", "call",
     "spread"}

\* The source lines of a statement of each kind.
StatementLines(kind) ==
    CASE kind = "comment"  -> << <<"#", "x">> >>
      [] kind = "name"     -> << <<"x">> >>
      [] kind = "str"      -> << <<"'", "x", "'">> >>
      [] kind = "mlstr"    -> << <<"'", "'", "'", "x">>,
                                 <<"x", "'", "'", "'">> >>
      [] kind = "assign"   -> << <<"x", "=", "'", "'", "'", "x">>,
                                 <<"x", "'", "'", "'">> >>
      [] kind = "binop"    -> << <<"'", "'", "'", "x">>,
                                 <<"x", "'", "'", "'", "+", "x">> >>
      [] kind = "adjacent" -> << <<"'", "'", "'", "x">>,
                                 <<"'", "'", "'", " ", "'", "'", "'", "x">>,
                                 <<"'", "'", "'">> >>
      [] kind = "spread"   -> << <<"'", "'", "'", "x">>,
                                 <<"'", "'", "'", " ", "'", "'", "'", "x">>,
                                 <<"x">>,
                                 <<"'", "'", "'">> >>
      [] kind = "call"     -> << <<"x", "(", "*", "'", "x", "'", ",", " ",
                                   "x", "=", "'", "x", "'", ")">> >>

\* The top-level node of the k-th statement, which starts on line l of the
\* parsed source; <<>> for a comment.
StatementTree(kind, k, l) ==
    CASE kind = "comment"  -> <<>>
      [] kind = "name"     ->
            <<AstNode(<<k, 1>>, "Expr", l, 0,
                      <<AstName(<<k, 2>>, <<k, 3>>, l, 0, "Load")>>)>>
      [] kind = "str"      ->
            <<AstNode(<<k, 1>>, "Expr", l, 0,
                      <<AstStr(<<k, 2>>, l, 0, <<"x">>)>>)>>
      [] kind = "mlstr"    ->
            <<AstNode(<<k, 1>>, "Expr", l + 1, -1,
                      <<AstStr(<<k, 2>>, l + 1, -1, <<"x", "\n", "x">>)>>)>>
      [] kind = "assign"   ->
            <<AstNode(<<k, 1>>, "Assign", l, 0,
                      <<AstName(<<k, 2>>, <<k, 3>>, l, 0, "Store"),
                        AstStr(<<k, 4>>, l + 1, -1, <<"x", "\n", "x">>)>>)>>
      [] kind = "binop"    ->
            <<AstNode(<<k, 1>>, "Expr", l + 1, -1,
                      <<AstNode(<<k, 2>>, "BinOp", l + 1, -1,
                                <<AstStr(<<k, 3>>, l + 1, -1, <<"x", "\n", "x">>),
                                  AstPlain(<<k, 4>>, "Add", <<>>),
                                  AstName(<<k, 5>>, <<k, 6>>, l + 1, 5, "Load")>>)>>)>>
      [] kind = "adjacent" ->
            <<AstNode(<<k, 1>>, "Expr", l + 1, -1,
                      <<AstStr(<<k, 2>>, l + 1, -1,
                               <<"x", "\n", "x", "\n">>)>>)>>
      [] kind = "spread"   ->
            <<AstNode(<<k, 1>>, "Expr", l + 1, -1,
                      <<AstStr(<<k, 2>>, l + 1, -1,
                               <<"x", "\n", "x", "\n", "x", "\n">>)>>)>>
      [] kind = "call"     ->
            \* x(*'x', x='x'): the fields of a Call are func, args, keywords,
            \* starargs, kwargs; a keyword has no lineno.
            <<AstNode(<<k, 1>>, "Expr", l, 0,
                      <<AstNode(<<k, 2>>, "Call", l, 0,
                                <<AstName(<<k, 3>>, <<k, 4>>, l, 0, "Load"),
                                  AstPlain(<<k, 5>>, "keyword",
                                           <<AstStr(<<k, 6>>, l, 10, <<"x">>)>>),
                                  AstStr(<<k, 7>>, l, 3, <<"x">>)>>)>>)>>

RECURSIVE SourceLines(_)
\* The lines of the statements of the given kinds, one after the other.
SourceLines(kinds) ==
    IF kinds = <<>> THEN <<>>
    ELSE StatementLines(Head(kinds)) \o SourceLines(Tail(kinds))

RECURSIVE ModuleBody(_, _, _)
\* The top-level nodes compile() reports for them.
ModuleBody(kinds, k, l) ==
    IF k > Len(kinds) THEN <<>>
    ELSE StatementTree(kinds[k], k, l)
             \o ModuleBody(kinds, k + 1, l + Len(StatementLines(kinds[k])))

\* _parse_ast_nodes(text, flags, "exec") on the text of these statements.
ParseAstNodes(kinds) ==
    AstPlain(<<0, 0>>, "Module", ModuleBody(kinds, 1, 1))

RECURSIVE AllNodes(_)
RECURSIVE AllNodesOf(_)
\* The nodes of a tree.
AllNodes(node) ==
    {node} \cup AllNodesOf(node.children)

AllNodesOf(nodes) ==
    IF nodes = <<>> THEN {} ELSE AllNodes(Head(nodes)) \cup AllNodesOf(Tail(nodes))

\* No node has a startpos or an endpos attribute yet.
NoAttrs(node) ==
    [id \in { n.id : n \in AllNodes(node) } |->
        [startpos |-> NoPos, endpos |-> NoPos]]

\* Where the parsed texts start.
AnnotateStarts ==
    { <<1, 1>>, <<1, 3>>, <<4, 1>> }

AnnotateInit ==
    /\ \E kinds \in UNION { [1..n -> StatementKinds] : n \in 1..MaxStatements } :
          /\ tree = <<ParseAstNodes(kinds)>>
          /\ \E sp \in AnnotateStarts, final \in { <<>>, << <<>> >> } :
                text = FileText(SourceLines(kinds) \o final, sp)
    /\ heap = <<>>
    /\ ret = Ret(NoExc, <<>>)
    /\ call = NoCall

\* _parse_annotate_ast_nodes, after the parse.
RunAnnotate ==
    /\ call = NoCall
    /\ \E r \in {AnnotateAstStartpos(tree[1], text.startpos, text, 0,
                                     NoAttrs(tree[1]))} :
          call' = [op |-> "annotate", exc |-> r.exc, attrs |-> r.attrs]
    /\ UNCHANGED <<text, tree, heap, ret>>

AnnotateNext ==
    RunAnnotate

AnnotateSpec ==
    AnnotateInit /\ [][AnnotateNext]_vars

\* C10: after the tree of a text has been parsed and annotated, every node
\* that has a lineno has a startpos, and every top-level node has an endpos.
C10_TopLevelNodesHaveEndpos ==
    (call.op = "annotate" /\ call.exc = NoExc) =>
        /\ \A n \in AllNodes(tree[1]) :
              HasAttr(n, "lineno") => call.attrs[n.id].startpos # NoPos
        /\ \A i \in 1..Len(tree[1].children) :
              call.attrs[tree[1].children[i].id].endpos # NoPos

\* C10 witness: the annotation of a text with a multi-line string statement
\* has ended without an exception; the string has its startpos and endpos,
\* the statement it makes up has the startpos and no endpos.
C10_StatementWithoutEndpos ==
    /\ call.op = "annotate"
    /\ call.exc = NoExc
    /\ \E i \in 1..Len(tree[1].children) :
          LET stmt == tree[1].children[i]
          IN  /\ stmt.type = "Expr"
              /\ stmt.children[1].type = "Str"
              /\ stmt.col_offset = -1
              /\ call.attrs[stmt.children[1].id].endpos # NoPos
              /\ call.attrs[stmt.id].startpos = call.attrs[stmt.children[1].id].startpos
              /\ call.attrs[stmt.id].endpos = NoPos

\* After the annotation every node that has a lineno has a startpos.
AllPositionedNodesHaveStartpos ==
    (call.op = "annotate" /\ call.exc = NoExc) =>
        \A n \in AllNodes(tree[1]) :
            HasAttr(n, "lineno") => call.attrs[n.id].startpos # NoPos

-----------------------------------------------------------------------------
(* PythonBlock.string_literals on a block made from text: the tree is      *)
(* parsed and annotated, then walked.                                      *)

\* reversed(list(...))
Reversed(s) ==
    [i \in 1..Len(s) |-> s[Len(s) + 1 - i]]

RECURSIVE WalkLoop(_, _)
\* Lines 111-114: pop the last node of the stack, yield it, push its
\* children in reverse.  acc holds the nodes yielded so far.
WalkLoop(todo, acc) ==
    IF todo = <<>> THEN [exc |-> NoExc, val |-> acc]
    ELSE LET node == todo[Len(todo)]
             children == IterChildNodesInOrder(node)
         IN  IF children.exc # NoExc
             THEN [exc |-> children.exc, val |-> acc \o <<node>>]
             ELSE WalkLoop(SubSeq(todo, 1, Len(todo) - 1) \o Reversed(children.val),
                           acc \o <<node>>)

\* _walk_ast_nodes_in_order
WalkAstNodesInOrder(node) ==
    WalkLoop(<<node>>, <<>>)

RECURSIVE YieldStrings(_, _, _)
\* Lines 911-914: the string nodes among the walked ones; each must have a
\* startpos.
YieldStrings(walked, attrs, acc) ==
    IF walked = <<>> THEN [exc |-> NoExc, val |-> acc]
    ELSE IF Head(walked).type # "Str" THEN YieldStrings(Tail(walked), attrs, acc)
    ELSE IF attrs[Head(walked).id].startpos = NoPos
    THEN [exc |-> <<"AssertionError", "assert:913">>, val |-> acc]
    ELSE YieldStrings(Tail(walked), attrs, acc \o <<Head(walked)>>)

\* PythonBlock.string_literals, the generator run to its end, given the
\* outcome of self.ast_node.
StringLiterals(ast_node, annotated) ==
    IF annotated.exc # NoExc THEN [exc |-> annotated.exc, val |-> <<>>]
    ELSE LET walked == WalkAstNodesInOrder(ast_node)
         IN  IF walked.exc # NoExc THEN [exc |-> walked.exc, val |-> <<>>]
             ELSE YieldStrings(walked.val, annotated.attrs, <<>>)

RunStringLiterals ==
    /\ call = NoCall
    /\ \E r \in {AnnotateAstStartpos(tree[1], text.startpos, text, 0,
                                     NoAttrs(tree[1]))} :
          \E lits \in {StringLiterals(tree[1], r)} :
              call' = [op |-> "string_literals", exc |-> lits.exc,
                       attrs |-> r.attrs, val |-> lits.val]
    /\ UNCHANGED <<text, tree, heap, ret>>

LiteralNext ==
    RunStringLiterals

LiteralSpec ==
    AnnotateInit /\ [][LiteralNext]_vars

\* The string nodes of a tree.
StrNodes(node) ==
    { n \in AllNodes(node) : n.type = "Str" }

\* C11: string_literals yields every string node of the tree exactly once,
\* each with a resolved start position, and in source order: the start
\* positions do not decrease along the sequence.
C11_LiteralsInSourceOrder ==
    (call.op = "string_literals" /\ call.exc = NoExc) =>
        /\ { call.val[i] : i \in 1..Len(call.val) } = StrNodes(tree[1])
        /\ Len(call.val) = Cardinality(StrNodes(tree[1]))
        /\ \A i \in 1..Len(call.val) : call.attrs[call.val[i].id].startpos # NoPos
        /\ \A i, j \in 1..Len(call.val) :
              i < j => PosLE(call.attrs[call.val[i].id].startpos,
                             call.attrs[call.val[j].id].startpos)

\* C11 witness: the literals of a call with a starred argument before a
\* keyword argument have been yielded, the keyword's value first although it
\* starts later in the source.
C11_KeywordValueFirst ==
    /\ call.op = "string_literals"
    /\ call.exc = NoExc
    /\ \E i \in 1..(Len(call.val) - 1) :
          /\ PosLT(call.attrs[call.val[i + 1].id].startpos,
                   call.attrs[call.val[i].id].startpos)
          /\ call.val[i].col_offset = 10
          /\ call.val[i + 1].col_offset = 3

\* Apart from the order, the literals are the string nodes of the tree, each
\* once and each with its start position.
LiteralsAreTheStringNodes ==
    (call.op = "string_literals" /\ call.exc = NoExc) =>
        /\ { call.val[i] : i \in 1..Len(call.val) } = StrNodes(tree[1])
        /\ Len(call.val) = Cardinality(StrNodes(tree[1]))
        /\ \A i \in 1..Len(call.val) : call.attrs[call.val[i].id].startpos # NoPos

-----------------------------------------------------------------------------
(* The ordered child enumerator on function definitions, class             *)
(* definitions, conditional expressions and parameter lists.  The field    *)
(* children of a node is what ast.iter_child_nodes yields: the child nodes *)
(* in the order of the node's _fields.                                     *)

\* The k-th of the leaves of a field: distinct nodes, numbered by field.
FieldLeaves(type, field, n) ==
    [i \in 1..n |-> AstLeaf(type, <<field, i>>)]

\* ast.arguments, _fields ('args', 'vararg', 'kwarg', 'defaults').
ArgumentsNode(args, defaults) ==
    [tag |-> "AST", type |-> "arguments", id |-> <<0, 0>>, args |-> args,
     defaults |-> defaults, children |-> args \o defaults]

\* ast.FunctionDef, _fields ('name', 'args', 'body', 'decorator_list').
FunctionDefNode(args, body, decorator_list) ==
    [tag |-> "AST", type |-> "FunctionDef", id |-> <<0, 1>>, args |-> args,
     body |-> body, decorator_list |-> decorator_list,
     children |-> <<args>> \o body \o decorator_list]

\* ast.ClassDef, _fields ('name', 'bases', 'body', 'decorator_list').
ClassDefNode(bases, body, decorator_list) ==
    [tag |-> "AST", type |-> "ClassDef", id |-> <<0, 1>>, bases |-> bases,
     body |-> body, decorator_list |-> decorator_list,
     children |-> bases \o body \o decorator_list]

\* ast.IfExp, _fields ('test', 'body', 'orelse').
IfExpNode(test, body, orelse) ==
    [tag |-> "AST", type |-> "IfExp", id |-> <<0, 1>>, test |-> test,
     body |-> body, orelse |-> orelse, children |-> <<test, body, orelse>>]

\* The parameter lists: up to MaxPairs + 1 parameters, any number of the
\* last ones with a default.
ArgumentsNodes ==
    UNION { { ArgumentsNode(FieldLeaves("Name", 1, n), FieldLeaves(type, 2, d)) :
                d \in 0..(IF n <= MaxPairs THEN n ELSE MaxPairs),
                type \in {"Num", "Str"} } :
              n \in 0..(MaxPairs + 1) }

FunctionDefNodes ==
    { FunctionDefNode(a, FieldLeaves("Expr", 3, b), FieldLeaves("Name", 4, d)) :
        a \in ArgumentsNodes, b \in 1..MaxPairs, d \in 0..MaxPairs }

ClassDefNodes ==
    { ClassDefNode(FieldLeaves("Name", 5, n), FieldLeaves("Expr", 3, b),
                   FieldLeaves("Name", 4, d)) :
        n \in 0..MaxPairs, b \in 1..MaxPairs, d \in 0..MaxPairs }

IfExpNodes ==
    { IfExpNode(AstLeaf(t1, <<6, 1>>), AstLeaf(t2, <<7, 1>>), AstLeaf(t3, <<8, 1>>)) :
        t1 \in {"Name", "Num"}, t2 \in {"Name", "Num"}, t3 \in {"Name", "Num"} }

OrderInit ==
    /\ text = FileText(<< <<"x">> >>, <<1, 1>>)
    /\ \/ \E node \in ArgumentsNodes : tree = <<node>>
       \/ \E node \in FunctionDefNodes : tree = <<node>>
       \/ \E node \in ClassDefNodes : tree = <<node>>
       \/ \E node \in IfExpNodes : tree = <<node>>
    /\ heap = <<>>
    /\ ret = Ret(NoExc, <<>>)
    /\ call = NoCall

\* _iter_child_nodes_in_order called on the node.
RunOrderedChildren ==
    /\ call = NoCall
    /\ \E node \in {tree[1]} :
          call' = [op |-> "iter_child_nodes_in_order", node |-> node.type,
                   out |-> IterChildNodesInOrder(node)]
    /\ UNCHANGED <<text, tree, heap, ret>>

OrderNext ==
    RunOrderedChildren

OrderSpec ==
    OrderInit /\ [][OrderNext]_vars

\* The parameters with a default, each followed by its default.
WithDefaults(args, defaults) ==
    [i \in 1..(2 * Len(defaults)) |->
        IF i % 2 = 1 THEN args[Len(args) - Len(defaults) + ((i + 1) \div 2)]
                     ELSE defaults[i \div 2]]

\* The documented order of the children of a node.
DocumentedOrder(node) ==
    CASE node.type = "FunctionDef" ->
            node.decorator_list \o <<node.args>> \o node.body
      [] node.type = "ClassDef" ->
            node.decorator_list \o node.bases \o node.body
      [] node.type = "IfExp" ->
            <<node.body, node.test, node.orelse>>
      [] node.type = "arguments" ->
            SubSeq(node.args, 1, Len(node.args) - Len(node.defaults))
                \o WithDefaults(node.args, node.defaults)

\* How often x occurs in the sequence s.
Occurrences(s, x) ==
    Cardinality({ i \in 1..Len(s) : s[i] = x })

\* C12: for a function definition, a class definition, a conditional
\* expression and a parameter list the enumerator yields the children in the
\* documented order (decorators, parameters, body; decorators, bases, body;
\* then-branch, condition, else-branch; the parameters without a default,
\* then each other parameter followed by its default), and each child of the
\* field-order rule exactly once.
C12_DocumentedOrder ==
    call.op = "iter_child_nodes_in_order" =>
        /\ call.out.exc = NoExc
        /\ call.out.val = DocumentedOrder(tree[1])
        /\ Len(call.out.val) = Len(tree[1].children)
        /\ \A i \in 1..Len(tree[1].children) :
              Occurrences(call.out.val, tree[1].children[i]) = 1

\* C12 witness: the children of a function definition with two decorators
\* and a parameter list have been enumerated, in an order that is not the
\* order of the fields.
C12_Witness ==
    /\ call.op = "iter_child_nodes_in_order"
    /\ tree[1].type = "FunctionDef"
    /\ Len(tree[1].decorator_list) = 2
    /\ Len(tree[1].args.defaults) = 1
    /\ call.out.val # tree[1].children
    /\ call.out.val[1] = tree[1].decorator_list[1]

-----------------------------------------------------------------------------
(* _annotate_ast_startpos as a function of its arguments: called on a node *)
(* of a parsed tree with a lower bound, on a tree without annotations.     *)

\* The lower bounds passed: the start of the text, and a position two
\* columns further.
MinposChoices(t) ==
    { t.startpos, FilePosAdd(t.startpos, <<0, 2>>) }

RunAnnotateNode ==
    /\ call = NoCall
    /\ \E node \in AllNodes(tree[1]), minpos \in MinposChoices(text) :
          \E r \in {AnnotateAstStartpos(node, minpos, text, 0, NoAttrs(tree[1]))} :
              call' = [op |-> "annotate_node", node |-> node, minpos |-> minpos,
                       exc |-> r.exc, attrs |-> r.attrs, leftstr |-> r.leftstr]
    /\ UNCHANGED <<text, tree, heap, ret>>

NodeNext ==
    RunAnnotateNode

NodeSpec ==
    AnnotateInit /\ [][NodeNext]_vars

OutOfOrder ==
    <<"AssertionError", "Got out-of-order AST node(s)">>

\* The children of a node in enumerator order.
Enumerated(node) ==
    IterChildNodesInOrder(node).val

RECURSIVE BelowBound(_, _, _, _)
RECURSIVE BelowBoundFrom(_, _, _, _, _)
\* Following the children of a node in enumerator order, depth first, with
\* the lower bound raised to the start of each child that has a lineno: some
\* annotated child starts below the bound it was annotated with (strict:
\* at or below it).
BelowBound(node, minpos, attrs, strict) ==
    BelowBoundFrom(Enumerated(node), 1, minpos, attrs, strict)

BelowBoundFrom(children, i, bound, attrs, strict) ==
    IF i > Len(children) THEN FALSE
    ELSE IF BelowBound(children[i], bound, attrs, strict) THEN TRUE
    ELSE IF ~HasAttr(children[i], "lineno")
    THEN BelowBoundFrom(children, i + 1, bound, attrs, strict)
    ELSE LET start == attrs[children[i].id].startpos
         IN  IF start = NoPos THEN FALSE
             ELSE IF PosLT(start, bound) \/ (strict /\ start = bound) THEN TRUE
             ELSE BelowBoundFrom(children, i + 1, start, attrs, strict)

\* The lower bounds of the children of a node, in order: the bound passed
\* in, then the start of each child that has a lineno.
RunningBounds(node, minpos, attrs) ==
    LET positioned == SelectSeq(Enumerated(node), LAMBDA c : HasAttr(c, "lineno"))
    IN  <<minpos>> \o [i \in 1..Len(positioned) |-> attrs[positioned[i].id].startpos]

\* C13 as stated: a child whose start is not strictly greater than the
\* running lower bound stops the annotation with the out-of-order fault.
C13_FaultUnlessStrictlyGreater ==
    call.op = "annotate_node" =>
        (BelowBound(call.node, call.minpos, call.attrs, TRUE) => call.exc = OutOfOrder)

\* C13, amended: the annotation stops with the out-of-order fault exactly
\* when a child that has a lineno starts strictly before the running lower
\* bound; a child that starts at the bound is in order.  Otherwise the bound
\* is raised to the child's start, so the bounds of the children of a node
\* never decrease.
C13_FaultIffBelowBound ==
    call.op = "annotate_node" =>
        /\ call.exc = OutOfOrder
              <=> BelowBound(call.node, call.minpos, call.attrs, FALSE)
        /\ call.exc = NoExc =>
              LET bounds == RunningBounds(call.node, call.minpos, call.attrs)
              IN  \A i \in 1..(Len(bounds) - 1) : PosLE(bounds[i], bounds[i + 1])

\* C13 witness: a statement has been annotated with a lower bound that lies
\* after the start of its first child, and the annotation has stopped with
\* the out-of-order fault.
C13_Witness ==
    /\ call.op = "annotate_node"
    /\ call.exc = OutOfOrder
    /\ Enumerated(call.node) # <<>>
    /\ PosLT(call.attrs[Enumerated(call.node)[1].id].startpos, call.minpos)

\* A child that starts at the lower bound has been annotated without a fault.
C13_ChildAtBound ==
    /\ call.op = "annotate_node"
    /\ call.exc = NoExc
    /\ Enumerated(call.node) # <<>>
    /\ call.attrs[Enumerated(call.node)[1].id].startpos = call.minpos

RECURSIVE Flagged(_)
\* The node has the unknown-column sentinel and is a string literal, or its
\* first enumerated child is flagged.
Flagged(node) ==
    /\ HasAttr(node, "lineno")
    /\ node.col_offset = -1
    /\ \/ node.type = "Str"
       \/ Enumerated(node) # <<>> /\ Flagged(Enumerated(node)[1])

\* C14: the annotation of a node returns TRUE exactly when the node has
\* col_offset -1 and is a string literal the search has resolved or a node
\* whose first enumerated child was flagged, and then its start is that
\* child's start; it returns FALSE for a node with a genuine column, whose
\* start is the start of the text offset by (lineno - 1, col_offset), and
\* for a node without a lineno, which gets no start.
C14_LeftmostFlag ==
    (call.op = "annotate_node" /\ call.exc = NoExc) =>
        LET node == call.node
            start == call.attrs[node.id].startpos
        IN  /\ call.leftstr = Flagged(node)
            /\ (call.leftstr /\ node.type = "Str") =>
                  start # NoPos /\ call.attrs[node.id].endpos # NoPos
            /\ (call.leftstr /\ node.type # "Str") =>
                  /\ start # NoPos
                  /\ start = call.attrs[Enumerated(node)[1].id].startpos
            /\ ~HasAttr(node, "lineno") => ~call.leftstr /\ start = NoPos
            /\ (HasAttr(node, "lineno") /\ node.col_offset >= 0) =>
                  /\ ~call.leftstr
                  /\ start = FilePosAdd(text.startpos,
                                        <<node.lineno - 1, node.col_offset>>)

\* C14 witness: an expression statement whose value is a binary operation
\* with a multi-line string on the left has been annotated: it is flagged
\* and starts where the operation and the string start.
C14_Witness ==
    /\ call.op = "annotate_node"
    /\ call.exc = NoExc
    /\ call.leftstr
    /\ call.node.type = "Expr"
    /\ call.node.children[1].type = "BinOp"
    /\ call.attrs[call.node.id].startpos
          = call.attrs[call.node.children[1].children[1].id].startpos
    /\ call.attrs[call.node.id].startpos # NoPos

-----------------------------------------------------------------------------
(* The search for the span of a multi-line string, lines 307-402, one      *)
(* iteration of the loop over the end lines at a time.  The state of the   *)
(* search is a record: the node, the lower bound, the end line to try      *)
(* next, the start candidates still kept, and the outcome; tried and used  *)
(* list the end lines tried so far and the start candidates each was tried *)
(* with.                                                                   *)

SearchFault(st, exc) ==
    [st EXCEPT !.status = "fault", !.exc = exc]

\* Lines 307-320: the reported end line and the start candidates.
SearchBegin(st, t) ==
    LET first_end_lineno == t.startpos[1] + st.node.lineno - 1
    IN  IF ~(st.minpos[1] <= first_end_lineno)
        THEN SearchFault(st, <<"AssertionError", "assert:312">>)
        ELSE [st EXCEPT !.status = "running",
                        !.first_end_lineno = first_end_lineno,
                        !.end_lineno = first_end_lineno,
                        !.cands = StartposCandidates(t, st.minpos[1], first_end_lineno)]

\* A faulty variant of the loop body: a line without a quote character ends
\* the search wherever it lies.
SearchIterationNoSkip(st, t, flags) ==
    IF st.end_lineno > EndPos(t)[1]
    THEN SearchFault(st, <<"ValueError", "Couldn't find exact position">>)
    ELSE The({ IF ends = <<>>
               THEN SearchFault(st1, <<"AssertionError", "No quote char found">>)
               ELSE The({ IF r.found
                          THEN [st1 EXCEPT !.status = "found",
                                           !.startpos = r.startpos,
                                           !.endpos = r.endpos]
                          ELSE IF r.matched_prefix = {}
                          THEN SearchFault(st1, <<"ValueError", "Couldn't find exact position">>)
                          ELSE [st1 EXCEPT !.end_lineno = @ + 1,
                                           !.cands = SelectSeq(@,
                                               LAMBDA c : c.pos \in r.matched_prefix)] :
                              r \in { TryCandidates(pairs, st.node.s, t, flags) :
                                        pairs \in {Candidates(ends, st.cands)} } }) :
                   ends \in {ReversedEndposCandidates(t, st.end_lineno)},
                   st1 \in {[st EXCEPT !.tried = @ \o <<st.end_lineno>>,
                                       !.used = @ \o <<st.cands>>]} })

\* Lines 337-402: one iteration of the loop over the end lines, or its end.
SearchIteration(st, t, flags) ==
    IF st.end_lineno > EndPos(t)[1]
    THEN SearchFault(st, <<"ValueError", "Couldn't find exact position">>)
    ELSE The({ IF ends = <<>>
               THEN IF st.end_lineno = st.first_end_lineno
                    THEN SearchFault(st1, <<"AssertionError", "No quote char found">>)
                    ELSE [st1 EXCEPT !.end_lineno = @ + 1]
               ELSE The({ IF r.found
                          THEN [st1 EXCEPT !.status = "found",
                                           !.startpos = r.startpos,
                                           !.endpos = r.endpos]
                          ELSE IF r.matched_prefix = {}
                          THEN SearchFault(st1, <<"ValueError", "Couldn't find exact position">>)
                          ELSE [st1 EXCEPT !.end_lineno = @ + 1,
                                           !.cands = SelectSeq(@,
                                               LAMBDA c : c.pos \in r.matched_prefix)] :
                              r \in { TryCandidates(pairs, st.node.s, t, flags) :
                                        pairs \in {Candidates(ends, st.cands)} } }) :
                   ends \in {ReversedEndposCandidates(t, st.end_lineno)},
                   st1 \in {[st EXCEPT !.tried = @ \o <<st.end_lineno>>,
                                       !.used = @ \o <<st.cands>>]} })

\* The string nodes the search is run for: those with col_offset -1.
AmbiguousStrings(node) ==
    { n \in StrNodes(node) : n.col_offset = -1 }

\* The line a node is said to end on: the line the parser reports, and the
\* line after it.
ReportedLines(node, t) ==
    { l \in {node.lineno, node.lineno + 1} : l <= Len(t.lines) }

SearchInit ==
    /\ \E kinds \in UNION { [1..n -> StatementKinds] : n \in 1..MaxStatements } :
          /\ tree = <<ParseAstNodes(kinds)>>
          /\ \E sp \in AnnotateStarts, final \in { <<>>, << <<>> >> } :
                text = FileText(SourceLines(kinds) \o final, sp)
    /\ heap = <<>>
    /\ ret = Ret(NoExc, <<>>)
    /\ \E node \in AmbiguousStrings(tree[1]) :
          \E lineno \in ReportedLines(node, text) :
              call = [op |-> "search", status |-> "start",
                      node |-> [node EXCEPT !.lineno = lineno],
                      minpos |-> text.startpos,
                      first_end_lineno |-> 0, end_lineno |-> 0, cands |-> <<>>,
                      exc |-> NoExc, startpos |-> NoPos, endpos |-> NoPos,
                      tried |-> <<>>, used |-> <<>>]

SearchStart ==
    /\ call.op = "search"
    /\ call.status = "start"
    /\ \E st \in {SearchBegin(call, text)} : call' = st
    /\ UNCHANGED <<text, tree, heap, ret>>

SearchStep ==
    /\ call.op = "search"
    /\ call.status = "running"
    /\ \E st \in {SearchIteration(call, text, 0)} : call' = st
    /\ UNCHANGED <<text, tree, heap, ret>>

SearchNext ==
    \/ SearchStart
    \/ SearchStep

SearchSpec ==
    SearchInit /\ [][SearchNext]_vars

\* The loop is sequential code: it runs until it returns or raises.
SearchLive ==
    SearchInit /\ [][SearchNext]_vars /\ WF_vars(SearchNext)

SearchDone ==
    call.status \in {"found", "fault"}

\* The step-wise search ends as the search of the annotator does.
SearchAgrees ==
    SearchDone =>
        LET r == FindString(call.node, call.minpos, text, 0)
        IN  /\ r.exc = call.exc
            /\ r.startpos = call.startpos
            /\ r.endpos = call.endpos

\* Line lineno of the text holds a quote character.
HasQuote(t, lineno) ==
    \E c \in 1..Len(LineAt(t, lineno)) : LineAt(t, lineno)[c] \in QuoteChars

\* The start candidates among cands that, with some quote character of the
\* line as the end, parse to a strict prefix of the target string.
PrefixOpens(cands, t, lineno, target_str) ==
    LET ends == ReversedEndposCandidates(t, lineno)
    IN  SelectSeq(cands, LAMBDA c :
            \E k \in 1..Len(ends) :
                /\ PosLT(c.pos, ends[k].pos)
                /\ LET v == TestParseStringLiteral(Slice(t, c.pos, ends[k].pos), 0)
                   IN  v.ok /\ v.s # target_str /\ StartsWith(target_str, v.s))

\* The positions of a sequence of candidates.
Opens(cands) ==
    { cands[k].pos : k \in 1..Len(cands) }

\* The end lines are tried in increasing order, one by one from the reported
\* end line and no further than the last line of the text, and the start
\* candidates used for an end line are those of the line before it that
\* produced a strict prefix of the target string there (all of them, when
\* that line has no quote character).
SearchNarrows ==
    call.status # "start" =>
        /\ \A i \in 1..Len(call.tried) :
              /\ call.tried[i] = call.first_end_lineno + i - 1
              /\ call.tried[i] <= EndPos(text)[1]
        /\ Len(call.used) = Len(call.tried)
        /\ \A i \in 1..(Len(call.used) - 1) :
              /\ Opens(call.used[i + 1]) \subseteq Opens(call.used[i])
              /\ call.used[i + 1] =
                    IF HasQuote(text, call.tried[i])
                    THEN PrefixOpens(call.used[i], text, call.tried[i], call.node.s)
                    ELSE call.used[i]

\* C15: the search always terminates, with a success or a fault; the end
\* lines are tried in increasing order from the reported end line to the
\* last line of the text, and the start candidates used for each later end
\* line are a subset of those used for the line before: exactly those that
\* produced a strict prefix of the target string.
C15_SearchTerminates ==
    []SearchNarrows /\ <>SearchDone

\* C15 witness: the search has gone on to a second end line with fewer start
\* candidates than it began with, and has found the string there.
C15_Witness ==
    /\ call.status = "found"
    /\ Len(call.tried) >= 2
    /\ Len(call.used[2]) < Len(call.used[1])
    /\ call.used[2] # <<>>

\* C16 as stated: when the reported end line holds no quote character the
\* search does not fail there but goes on to the next line.
C16_ExtendsPastReportedLine ==
    (call.status # "start" /\ call.tried # <<>>
        /\ ~HasQuote(text, call.first_end_lineno)) =>
            ~(call.status = "fault" /\ Len(call.tried) = 1)

\* C16, amended: a line after the reported end line that holds no quote
\* character is skipped, the search goes on to the next line with the same
\* start candidates and fails there only when the text is exhausted; when
\* the reported end line itself holds no quote character the search stops
\* with AssertionError("No quote char found on line with supposed string").
C16_SkipsLaterLinesOnly ==
    (call.status # "start" /\ call.tried # <<>>) =>
        /\ ~HasQuote(text, call.first_end_lineno) =>
              /\ call.status = "fault"
              /\ call.exc = <<"AssertionError", "No quote char found">>
              /\ call.tried = <<call.first_end_lineno>>
        /\ \A i \in 2..Len(call.tried) :
              ~HasQuote(text, call.tried[i]) =>
                  /\ call.status # "found" \/ i < Len(call.tried)
                  /\ (call.status = "fault" /\ i = Len(call.tried)) =>
                        /\ call.tried[i] = EndPos(text)[1]
                        /\ call.exc = <<"ValueError", "Couldn't find exact position">>
                  /\ i < Len(call.tried) =>
                        /\ call.tried[i + 1] = call.tried[i] + 1
                        /\ call.used[i + 1] = call.used[i]

\* C16 witness: a line after the reported end line holds no quote character,
\* the search has skipped it and has found the string on the line after it.
C16_Witness ==
    /\ call.status = "found"
    /\ \E i \in 2..(Len(call.tried) - 1) : ~HasQuote(text, call.tried[i])

\* The reported end line holds no quote character and the search has stopped
\* with the assertion error.
C16_NoQuoteOnReportedLine ==
    /\ call.status = "fault"
    /\ ~HasQuote(text, call.first_end_lineno)
    /\ call.exc = <<"AssertionError", "No quote char found">>

\* C17: when the search succeeds it has found a start and an end with
\* start < end, the start on a line from the lower bound's line to the
\* reported end line, the end on or after the reported end line, and the
\* text from start to end parses, on its own, to the value of the string;
\* in every other case it raises and sets neither position.
C17_FoundSpanParsesToValue ==
    SearchDone =>
        /\ call.status = "found" =>
              /\ call.exc = NoExc
              /\ call.startpos # NoPos /\ call.endpos # NoPos
              /\ PosLT(call.startpos, call.endpos)
              /\ call.minpos[1] <= call.startpos[1]
              /\ call.startpos[1] <= call.first_end_lineno
              /\ call.first_end_lineno <= call.endpos[1]
              /\ LET v == TestParseStringLiteral(
                              Slice(text, call.startpos, call.endpos), 0)
                 IN  v.ok /\ v.s = call.node.s
        /\ call.status = "fault" =>
              /\ call.exc # NoExc
              /\ call.startpos = NoPos /\ call.endpos = NoPos

\* C17 witness: the search for adjacent strings that end two lines after the
\* reported end line has succeeded.
C17_Witness ==
    /\ call.status = "found"
    /\ call.endpos[1] = call.first_end_lineno + 2
    /\ call.startpos[1] < call.first_end_lineno

-----------------------------------------------------------------------------
(* The end of a statement chunk. *)

\* The index among the chunks of the chunk that holds the i-th node.
RECURSIVE NodeChunkIndex(_, _, _)
NodeChunkIndex(chunks, i, k) ==
    IF k > Len(chunks) THEN 0
    ELSE IF chunks[k].nodes # <<>>
    THEN (IF i = 1 THEN k ELSE NodeChunkIndex(chunks, i - 1, k + 1))
    ELSE NodeChunkIndex(chunks, i, k + 1)

\* The splitter has come to the i-th node: each node before it has its chunk.
CameTo(i) ==
    /\ call.op = "split"
    /\ SplitPreconditions(tree, text)
    /\ i \in 1..Len(tree)
    /\ i <= Len(NodeChunks(call.out.chunks)) + 1

\* The i-th node has its chunk, the chunk ends at endpos, and what lies
\* between endpos and the provisional boundary is a chunk of no node.
EndsAt(i, endpos) ==
    LET chunks == call.out.chunks
        k == NodeChunkIndex(chunks, i, 1)
        boundary == NextStart(tree, text, i)
    IN  /\ k # 0
        /\ chunks[k].nodes = <<tree[i]>>
        /\ chunks[k].text = Slice(text, tree[i].startpos, endpos)
        /\ IF endpos = boundary
           THEN k = Len(chunks) \/ chunks[k + 1].nodes # <<>>
           ELSE /\ k < Len(chunks)
                /\ chunks[k + 1] = Chunk(<<>>, Slice(text, endpos, boundary))

\* The line where the walk back from the start of line from_lineno stops: the
\* first of the lines before from_lineno that all lie after the line where
\* the node starts, are comment-or-blank and follow a line that does not end
\* in a backslash.
WalkedBackLine(t, start_lineno, from_lineno) ==
    LET stops == { e \in 1..from_lineno :
                     \A l \in e..(from_lineno - 1) :
                         /\ l > start_lineno
                         /\ IsCommentOrBlank(LineAt(t, l))
                         /\ ~EndsWithBackslash(LineAt(t, l - 1)) }
    IN  CHOOSE e \in stops : \A f \in stops : e <= f

\* The boundary is the end of a text without final line break whose last
\* line is comment-or-blank and follows a line that is not continued.
OnCommentLastLine(t, boundary) ==
    /\ boundary = EndPos(t)
    /\ boundary[2] # 1
    /\ boundary[1] > t.startpos[1]
    /\ IsCommentOrBlank(LineAt(t, boundary[1]))
    /\ ~EndsWithBackslash(LineAt(t, boundary[1] - 1))

\* C18: for a node without endpos whose provisional boundary is at the start
\* of a line, or is the end of the text on a comment/blank last line with no
\* line break after a line that is not continued, the chunk ends where the
\* walk back from that line stops, and the comment/blank lines walked over
\* are a chunk of their own; a boundary in the middle of a line before the
\* end of the text is the end of the chunk.
C18_WalksBackOverComments ==
    \A i \in 1..Len(tree) :
        (CameTo(i) /\ tree[i].endpos = NoPos) =>
            LET boundary == NextStart(tree, text, i)
            IN  /\ (boundary[2] = 1 \/ OnCommentLastLine(text, boundary)) =>
                      EndsAt(i, <<WalkedBackLine(text, tree[i].startpos[1],
                                                 boundary[1]), 1>>)
                /\ (boundary[2] # 1 /\ boundary # EndPos(text)) =>
                      EndsAt(i, boundary)

\* C18 witness: the last node has no endpos, the text ends without a line
\* break on a line that reads as a comment and follows a line that is not
\* continued, the node starts on that line, and the splitter has stopped at
\* the assertion of line 464 without a chunk for the node.
C18_FaultOnLastLine ==
    /\ CameTo(Len(tree))
    /\ tree[Len(tree)].endpos = NoPos
    /\ OnCommentLastLine(text, EndPos(text))
    /\ tree[Len(tree)].startpos[1] = EndPos(text)[1]
    /\ call.out.err = "assert:464"
    /\ NodeChunkIndex(call.out.chunks, Len(tree), 1) = 0

\* The rule of C18 in every case where no assertion fails.
WalksBackUnlessFault ==
    \/ (call.op = "split" /\ call.out.err = "assert:464")
    \/ C18_WalksBackOverComments

\* The walk has gone back over two lines, and the lines are a chunk of their
\* own.
WalkedBackTwoLines ==
    /\ CameTo(1)
    /\ tree[1].endpos = NoPos
    /\ NextStart(tree, text, 1)[2] = 1
    /\ NextStart(tree, text, 1)[1] - 2 > tree[1].startpos[1]
    /\ EndsAt(1, <<NextStart(tree, text, 1)[1] - 2, 1>>)

\* What follows position pos on its line.
RestOfLine(t, pos) ==
    LET line == LineAt(t, pos[1])
    IN  SubSeq(line, ColIndex(t, pos[1], pos[2]) + 1, Len(line))

\* C19: for a node with an endpos the chunk ends at the start of the next
\* line when what follows the endpos on its line is blank or a comment, and
\* at the endpos itself otherwise; the comment/blank lines after that line
\* are no part of the node's chunk but a chunk of no node that follows it.
C19_AbsorbsRestOfLineOnly ==
    \A i \in 1..Len(tree) :
        (CameTo(i) /\ tree[i].endpos # NoPos) =>
            EndsAt(i, IF IsCommentOrBlank(RestOfLine(text, tree[i].endpos))
                      THEN <<tree[i].endpos[1] + 1, 1>>
                      ELSE tree[i].endpos)

\* C19 witness: the endpos of the last node is the end of a text without
\* final line break, nothing follows it on its line, and the splitter has
\* stopped at the assertion of line 481 without a chunk for the node.
C19_FaultAtEndOfText ==
    /\ CameTo(Len(tree))
    /\ tree[Len(tree)].endpos = EndPos(text)
    /\ RestOfLine(text, tree[Len(tree)].endpos) = <<>>
    /\ call.out.err = "assert:481"
    /\ NodeChunkIndex(call.out.chunks, Len(tree), 1) = 0

\* The rule of C19 in every case where no assertion fails.
AbsorbsRestOfLineUnlessFault ==
    \/ (call.op = "split" /\ call.out.err = "assert:481")
    \/ C19_AbsorbsRestOfLineOnly

\* The rest of the line after an endpos is a comment, comment lines follow
\* it, and they are a chunk of their own.
CommentLinesAfterEndpos ==
    /\ CameTo(1)
    /\ tree[1].endpos # NoPos
    /\ RestOfLine(text, tree[1].endpos) # <<>>
    /\ NextStart(tree, text, 1)[1] > tree[1].endpos[1] + 1
    /\ EndsAt(1, <<tree[1].endpos[1] + 1, 1>>)

\* No node carries an endpos: every chunk end is found by the walk back.
BackwardOnly ==
    \A i \in 1..Len(tree) : tree[i].endpos = NoPos

\* The positions of the characters of the text that lie in the chunk.
ChunkPositions(t, chunk) ==
    { p \in UNION { { <<l, c>> : c \in 1..Len(LineAt(t, l)) } :
                      l \in t.startpos[1]..EndPos(t)[1] } :
        PosLE(chunk.text.startpos, p) /\ PosLT(p, EndPos(chunk.text)) }

\* C20: the chunk of a node holds the node from its first to its last
\* character: the walk back never moves the end to or before a line of the
\* node, even when that line reads as a comment; and a chunk of no node
\* holds no character of any node.
C20_ChunkHoldsWholeNode ==
    (call.op = "split" /\ SplitPreconditions(tree, text) /\ BackwardOnly) =>
        \A k \in 1..Len(call.out.chunks) :
            LET chunk == call.out.chunks[k]
            IN  IF chunk.nodes # <<>>
                THEN PosLE(chunk.nodes[1].ext, EndPos(chunk.text))
                ELSE \A p \in ChunkPositions(text, chunk) : ~Covered(tree, p)

\* C20 witness: the last line of a node starts with "#", the walk back has
\* gone over it, the chunk of the node ends before the node does, and the
\* chunk of no node after it starts inside the node.
C20_ChunkCutsNode ==
    /\ call.op = "split"
    /\ SplitPreconditions(tree, text)
    /\ BackwardOnly
    /\ call.out.err = "none"
    /\ \E k \in 1..(Len(call.out.chunks) - 1) :
          LET chunk == call.out.chunks[k]
              after == call.out.chunks[k + 1]
          IN  /\ chunk.nodes # <<>>
              /\ after.nodes = <<>>
              /\ PosLT(EndPos(chunk.text), chunk.nodes[1].ext)
              /\ chunk.nodes[1].startpos[1] < chunk.nodes[1].ext[1]
              /\ EndPos(chunk.text) = <<chunk.nodes[1].ext[1], 1>>
              /\ LineAt(text, chunk.nodes[1].ext[1])[1] = "#"
              /\ Covered(tree, after.text.startpos)

\* The line where a node starts is always in the node's chunk.
ChunkHoldsStartLine ==
    (call.op = "split" /\ SplitPreconditions(tree, text) /\ BackwardOnly) =>
        \A k \in 1..Len(call.out.chunks) :
            LET chunk == call.out.chunks[k]
            IN  chunk.nodes # <<>> =>
                    \/ EndPos(chunk.text)[1] > chunk.nodes[1].startpos[1]
                    \/ EndPos(chunk.text) = NextStart(tree, text, chunk.nodes[1].id)

=============================================================================
